---- MODULE Spec2Model ----
(***************************************************************************)
(* A model of the environment layer of EthBMC (esvm/src/se/env.rs): the    *)
(* process-wide fresh-name counter, accounts, transactions, blocks and the *)
(* Env that owns them, together with the pieces of the analysis pipeline   *)
(* around it.  Symbolic values (BVal) are modelled as terms: tuples whose  *)
(* first element is the node kind.                                         *)
(***************************************************************************)
EXTENDS Integers, Sequences, FiniteSets, TLC

VARIABLES
    counter,      \* GLOBAL_COUNTER: the three prefix -> usize maps
    memory,       \* the SymbolicMemory table handed to every Env operation
    coverage,     \* GLOBAL_COVERAGE_MAP: AccountId -> code
    envs,         \* every Env value alive in the analysis, in creation order
    parent,       \* parent[i]: index of the Env that envs[i] was derived from (0: Env::new)
    derived,      \* derived[i]: number of from_old_env calls on the path to envs[i]
    last,         \* the last Env operation: its name, arguments, result and pre-state
    run2,         \* a second run of the same program on the same input
    lock,         \* holder of the GLOBAL_COUNTER mutex (0: free)
    threads,      \* concurrent callers of fresh_var_name
    issued,       \* names returned by fresh_var_name so far, in order of return
    cfg,          \* the SymbolicConfig of the analysis
    cands,        \* candidate witnesses found by the property checker
    report,       \* witnesses reported to the user
    evm,          \* an Evm and a Revm instance: genesis, db and the inputs executed
    se,           \* the input of SeEnviroment::from_yaml and the from / to it returned
    cli,          \* one run of the esvm binary: arguments, phase, solver pool, exit code
    wm,           \* a symbolic memory under word writes: its head and the writes applied
    ex,           \* the path explorer: its worklist and the states it has taken from it
    rnd,          \* the digests drawn by generate_random_vec and the values made of them
    lg,           \* an Env under account creations and transactions, with its history
    fr,           \* a CustomFunctionRunner: the test functions and their results
    ch            \* run_tests: the channel, the suite workers and the outcome

vars == <<counter, memory, coverage, envs, parent, derived, last, run2,
          lock, threads, issued, cfg, cands, report, evm, se, cli, wm, ex, rnd, lg, fr, ch>>

----------------------------------------------------------------------------
(* Bounds of the model *)

MaxEnvs == 3
MaxAcc == 3
MaxTx == 2
MaxOps == 4
WordMod == 16

----------------------------------------------------------------------------
(* Option<T> *)

None == <<>>
Some(v) == <<v>>
IsSome(o) == Len(o) = 1
Unwrap(o) == o[1]

(* HashMap<K, V> as a function with a finite domain *)
EmptyMap == [k \in {} |-> 0]
MapInsert(m, k, v) == [x \in DOMAIN m \cup {k} |-> IF x = k THEN v ELSE m[x]]
Range(s) == {s[i] : i \in DOMAIN s}

----------------------------------------------------------------------------
(* BVal: the expression terms (bval.rs).  Constant-only subtrees are folded *)
(* eagerly, in arithmetic modulo the word size.                             *)

var(name) == <<"var", name>>
const_usize(n) == <<"const", n>>
const256(name) == <<"cname", name>>
bool_const(b) == <<"bconst", b>>
IsConst(t) == t[1] = "const"

RECURSIVE StripZeros(_)
StripZeros(bytes) ==
    IF bytes # <<>> /\ Head(bytes) = 0 THEN StripZeros(Tail(bytes)) ELSE bytes
const_vec(bytes) == <<"cvec", StripZeros(bytes)>>

add(a, b) ==
    IF IsConst(a) /\ IsConst(b) THEN const_usize((a[2] + b[2]) % WordMod)
    ELSE <<"add", a, b>>
sub(a, b) ==
    IF IsConst(a) /\ IsConst(b) THEN const_usize((a[2] - b[2]) % WordMod)
    ELSE <<"sub", a, b>>
lt(a, b) ==
    IF IsConst(a) /\ IsConst(b) THEN bool_const(a[2] < b[2]) ELSE <<"lt", a, b>>
le(a, b) ==
    IF IsConst(a) /\ IsConst(b) THEN bool_const(a[2] <= b[2]) ELSE <<"le", a, b>>
eql(a, b) ==
    IF IsConst(a) /\ IsConst(b) THEN bool_const(a[2] = b[2]) ELSE <<"eql", a, b>>

----------------------------------------------------------------------------
(* Counter *)

Counter_new ==
    [tx_counters |-> EmptyMap, acc_counters |-> EmptyMap, var_counters |-> EmptyMap]

\* entry(name).or_insert(0)
or_insert_0(m, name) == IF name \in DOMAIN m THEN m[name] ELSE 0

\* format!("{}_{}", name, n)
Format(name, n) == name \o "_" \o ToString(n)

\* Each returns the counter after the call and the name issued.
Counter_fresh_var_name(c, name) ==
    LET Issue(n) == [counter |-> [c EXCEPT !.var_counters = MapInsert(@, name, n)],
                     ret |-> Format(name, n)]
    IN Issue(or_insert_0(c.var_counters, name) + 1)

Counter_fresh_account_name(c, name) ==
    LET Issue(n) == [counter |-> [c EXCEPT !.acc_counters = MapInsert(@, name, n)],
                     ret |-> Format(name, n)]
    IN Issue(or_insert_0(c.acc_counters, name) + 1)

Counter_fresh_tx_name(c, name) ==
    LET Issue(n) == [counter |-> [c EXCEPT !.tx_counters = MapInsert(@, name, n)],
                     ret |-> Format(name, n)]
    IN Issue(or_insert_0(c.tx_counters, name) + 1)

\* fresh_var(name) = var(fresh_var_name(name))
fresh_var(c, name) ==
    LET Wrap(r) == [counter |-> r.counter, ret |-> var(r.ret)]
    IN Wrap(Counter_fresh_var_name(c, name))

\* fresh_var called once for each name of a list of pairwise different names,
\* in order: the counter after the calls and the variables.  The names differ,
\* so each call finds the entry of its name as it was before the first call.
fresh_vars(c, names) ==
    [counter |->
         [c EXCEPT !.var_counters =
                       [x \in DOMAIN @ \cup Range(names) |->
                            IF x \in Range(names)
                            THEN Counter_fresh_var_name(c, x).counter.var_counters[x]
                            ELSE @[x]]],
     ret |-> [i \in DOMAIN names |-> fresh_var(c, names[i]).ret]]

----------------------------------------------------------------------------
(* SymbolicMemory: a table of memory nodes; an MVal is an index into it *)

new_memory == <<>>

create_new_memory(m, name, type, size, account) ==
    [memory |-> Append(m, [name |-> name, type |-> type, size |-> size,
                           account |-> account, parent |-> None,
                           op |-> <<"Fresh">>]),
     ret |-> Len(m) + 1]

----------------------------------------------------------------------------
(* Account *)

\* Each constructor takes the globals g = [counter, memory, coverage] and
\* returns the globals after the call together with the value built.
Account_new(g, id, name, code) ==
    LET Build(v, s) ==
            [g |-> [g EXCEPT !.counter = v.counter, !.memory = s.memory],
             ret |-> [id |-> id,
                      name |-> name,
                      addr |-> v.ret[1],
                      balance |-> v.ret[2],
                      storage |-> s.ret,
                      constraints |-> <<>>,
                      selfdestruct |-> FALSE,
                      code |-> code,
                      codesize |-> IF IsSome(code) THEN Len(Unwrap(code)) ELSE 0,
                      owner |-> None,
                      mappings |-> EmptyMap,
                      initial_storage |-> None,
                      initial_balance |-> None,
                      initial_attacker_balance |-> None]]
    IN Build(fresh_vars(g.counter, <<name \o "_account_addr", name \o "_account_balance">>),
             create_new_memory(g.memory, name \o "_storage", "Storage", None, Some(id)))

Account_with_addr(g, id, name, addr) ==
    LET Set(r) == [g |-> r.g, ret |-> [r.ret EXCEPT !.addr = addr]]
    IN Set(Account_new(g, id, name, None))

Account_with_addr_and_code(g, id, name, addr, code) ==
    LET Set(r) == [g |-> r.g, ret |-> [r.ret EXCEPT !.addr = addr]]
    IN Set(Account_new(g, id, name, code))

Account_with_addr_code_balance(g, id, name, addr, code, balance) ==
    LET Set(r) == [g |-> r.g, ret |-> [r.ret EXCEPT !.balance = balance]]
    IN Set(Account_with_addr_and_code(g, id, name, addr, code))

Account_get_standard_constraints(acc) == <<>>

Account_get_constraints(acc) ==
    IF acc.constraints = <<>> THEN Account_get_standard_constraints(acc)
    ELSE acc.constraints

----------------------------------------------------------------------------
(* Transaction *)

Transaction_new(g, id, name) ==
    LET Vars(v) ==
            LET Data(d) ==
                    [g |-> [g EXCEPT !.counter = v.counter, !.memory = d.memory],
                     ret |-> [id |-> id,
                              name |-> name,
                              caller |-> v.ret[1],
                              origin |-> v.ret[2],
                              addr |-> v.ret[3],
                              gas |-> v.ret[4],
                              data |-> d.ret,
                              callvalue |-> v.ret[5],
                              calldata_size |-> v.ret[6],
                              constraints |-> <<>>]]
            IN Data(create_new_memory(g.memory, name \o "_data", "Data",
                                      Some(v.ret[6]), None))
    IN Vars(fresh_vars(g.counter,
                       <<name \o "_caller", name \o "_origin", name \o "_target",
                         name \o "_gas", name \o "_value", name \o "_calldata_size">>))

Transaction_new_outgoing(g, id, name, caller, origin, addr, gas, callvalue, calldata_size, returndata_size) ==
    LET New(r) ==
            LET ReturnSize(rs) ==
                    [g |-> [r.g EXCEPT !.counter = rs.counter],
                     ret |-> [r.ret EXCEPT !.caller = caller,
                                           !.origin = origin,
                                           !.addr = addr,
                                           !.gas = gas,
                                           !.callvalue = callvalue,
                                           !.calldata_size = calldata_size,
                                           !.constraints = <<eql(returndata_size, rs.ret)>>]]
            IN ReturnSize(fresh_var(r.g.counter, name \o "_returndata_size"))
    IN New(Transaction_new(g, id, name))

\* with_sender_receiver that leaves the origin as Transaction::new made it
Transaction_with_sender_receiver_no_origin(g, id, name, caller, addr) ==
    LET New(r) ==
            [g |-> r.g,
             ret |-> [r.ret EXCEPT !.constraints =
                                       <<lt(r.ret.gas, const256("MAX_GAS")),
                                         lt(r.ret.callvalue, const256("MAX_CALLVAL")),
                                         lt(r.ret.calldata_size,
                                            const256("MAX_CALLDATA_SIZE"))>>,
                                   !.caller = caller,
                                   !.addr = addr]]
    IN New(Transaction_new(g, id, name))

Transaction_with_sender_receiver(g, id, name, caller, addr) ==
    LET New(r) ==
            [g |-> r.g,
             ret |-> [r.ret EXCEPT !.constraints =
                                       <<lt(r.ret.gas, const256("MAX_GAS")),
                                         lt(r.ret.callvalue, const256("MAX_CALLVAL")),
                                         lt(r.ret.calldata_size,
                                            const256("MAX_CALLDATA_SIZE"))>>,
                                   !.origin = caller,
                                   !.caller = caller,
                                   !.addr = addr]]
    IN New(Transaction_new(g, id, name))

Transaction_get_standard_constraints(tx) ==
    <<lt(tx.gas, const256("MAX_GAS")),
      lt(tx.callvalue, const256("MAX_CALLVAL")),
      lt(tx.calldata_size, const256("MAX_CALLDATA_SIZE"))>>

Transaction_get_constraints(tx) ==
    IF tx.constraints = <<>> THEN Transaction_get_standard_constraints(tx)
    ELSE tx.constraints

----------------------------------------------------------------------------
(* Block *)

BlockFields ==
    <<"gasprice", "mem_size", "gas_limit", "difficulty", "number", "timestamp",
      "coinbase", "blockhash", "chainid">>

\* A fully symbolic block; returns the counter after the nine fresh_var calls.
Block_new(c) ==
    LET Vars(v) ==
            [counter |-> v.counter,
             ret |-> [gasprice |-> v.ret[1],
                      mem_size |-> v.ret[2],
                      gas_limit |-> v.ret[3],
                      difficulty |-> v.ret[4],
                      number |-> v.ret[5],
                      timestamp |-> v.ret[6],
                      coinbase |-> v.ret[7],
                      blockhash |-> v.ret[8],
                      blocknumber |-> None,
                      chainid |-> v.ret[9]]]
    IN Vars(fresh_vars(c, BlockFields))

----------------------------------------------------------------------------
(* Randomness: thread_rng() is seeded by the operating system, so the 32    *)
(* bytes it yields, and their Keccak-256 digest, are a free choice.         *)

HashLen == 32
AddrLen == 20

\* the (address digest, hash digest) pairs one from_old_env call may draw
RandDraws ==
    { <<[i \in 1..HashLen |-> 255], [i \in 1..HashLen |-> IF i <= 13 THEN 0 ELSE i]>>,
      <<[i \in 1..HashLen |-> IF i <= 13 THEN 0 ELSE i], [i \in 1..HashLen |-> 255]>> }

generate_random_hash(vec) == const_vec(vec)

\* generate_random_address made of the whole digest
generate_random_address_whole(vec) == const_vec(vec)

generate_random_address(vec) == const_vec(SubSeq(vec, 1, AddrLen))

----------------------------------------------------------------------------
(* Env *)

\* Returns the counter after Block::new and the new Env.
Env_new(c) ==
    LET New(b) ==
            [counter |-> b.counter,
             ret |-> [accounts |-> EmptyMap,
                      transactions |-> EmptyMap,
                      acc_counter |-> 0,
                      tx_counter |-> 0,
                      addresses |-> EmptyMap,
                      func_selector |-> None,
                      constraints |->
                          <<lt(b.ret.gasprice, const256("MAX_GASPRICE")),
                            lt(b.ret.gas_limit, const256("GAS_LIMIT")),
                            lt(b.ret.mem_size, const_usize(100000)),
                            lt(b.ret.difficulty, const256("MAX_DIFFICULTY")),
                            lt(b.ret.number, const256("MAX_NUMBER")),
                            lt(b.ret.timestamp, const256("MAX_TIMESTAMP")),
                            eql(b.ret.coinbase, const256("COINBASE")),
                            eql(b.ret.blockhash, const256("BLOCKHASH"))>>,
                      blocknumbers |-> None,
                      loaded_accounts |-> None,
                      precompiled_contracts |-> None,
                      blocks |-> <<b.ret>>,
                      blockhashes |-> None]]
    IN New(Block_new(c))

latest_block(env) == env.blocks[Len(env.blocks)]

\* from_old_env's constraints with the two blocks of the ordering exchanged
from_old_env_constraints_swapped(old_env, v1, block, vec_addr, vec_hash) ==
    <<lt(v1[1], const256("MAX_GASPRICE")),
      lt(v1[2], const_usize(100000)),
      lt(block.gasprice, const256("MAX_GASPRICE")),
      lt(block.gas_limit, const256("GAS_LIMIT")),
      lt(block.mem_size, const_usize(100000)),
      lt(block.difficulty, const256("MAX_DIFFICULTY")),
      lt(block.number, latest_block(old_env).number),
      lt(block.timestamp, latest_block(old_env).timestamp),
      lt(block.number, const256("MAX_NUMBER")),
      lt(block.timestamp, const256("MAX_TIMESTAMP")),
      eql(block.coinbase, generate_random_address(vec_addr)),
      eql(block.blockhash, generate_random_hash(vec_hash))>>

\* The constraints from_old_env collects: v1 are the first pair of variables
\* given to gasprice and mem_size, block is the new block in its final form.
from_old_env_constraints(old_env, v1, block, vec_addr, vec_hash) ==
    <<lt(v1[1], const256("MAX_GASPRICE")),
      lt(v1[2], const_usize(100000)),
      lt(block.gasprice, const256("MAX_GASPRICE")),
      lt(block.gas_limit, const256("GAS_LIMIT")),
      lt(block.mem_size, const_usize(100000)),
      lt(block.difficulty, const256("MAX_DIFFICULTY")),
      lt(latest_block(old_env).number, block.number),
      lt(latest_block(old_env).timestamp, block.timestamp),
      lt(block.number, const256("MAX_NUMBER")),
      lt(block.timestamp, const256("MAX_TIMESTAMP")),
      eql(block.coinbase, generate_random_address(vec_addr)),
      eql(block.blockhash, generate_random_hash(vec_hash))>>

\* from_old_env that assigns the new constraints instead of appending them
from_old_env_assign(c, old_env, vec_addr, vec_hash) ==
    LET Push(b) ==
            LET Second(v2) ==
                    LET Finish(block) ==
                            [counter |-> v2.counter,
                             ret |-> [old_env EXCEPT
                                         !.blocks = Append(@, block),
                                         !.constraints =
                                             from_old_env_constraints(
                                                 old_env, <<b.ret.gasprice, b.ret.mem_size>>,
                                                 block, vec_addr, vec_hash)]]
                    IN Finish([b.ret EXCEPT !.gasprice = v2.ret[1],
                                            !.mem_size = v2.ret[2],
                                            !.gas_limit = v2.ret[3],
                                            !.difficulty = v2.ret[4],
                                            !.number = v2.ret[5],
                                            !.timestamp = v2.ret[6],
                                            !.coinbase = v2.ret[7],
                                            !.blockhash = v2.ret[8]])
            IN Second(fresh_vars(b.counter,
                                 <<"gasprice", "mem_size", "gas_limit", "difficulty",
                                   "number", "timestamp", "coinbase", "blockhash">>))
    IN Push(Block_new(c))

\* from_old_env(&old_env); vec_addr and vec_hash are the two digests drawn by
\* generate_random_address and generate_random_hash.  Returns the counter
\* after the call and the derived Env; old_env is only read.
from_old_env(c, old_env, vec_addr, vec_hash) ==
    LET Push(b) ==
            LET First(v1) ==
                    LET Second(v2) ==
                            LET Finish(block) ==
                                    [counter |-> v2.counter,
                                     ret |-> [old_env EXCEPT
                                                 !.blocks = Append(@, block),
                                                 !.constraints =
                                                     @ \o from_old_env_constraints(
                                                              old_env, v1.ret, block,
                                                              vec_addr, vec_hash)]]
                            IN Finish([b.ret EXCEPT !.gasprice = v2.ret[1],
                                                    !.mem_size = v2.ret[2],
                                                    !.gas_limit = v2.ret[3],
                                                    !.difficulty = v2.ret[4],
                                                    !.number = v2.ret[5],
                                                    !.timestamp = v2.ret[6],
                                                    !.coinbase = v2.ret[7],
                                                    !.blockhash = v2.ret[8]])
                    IN Second(fresh_vars(v1.counter,
                                         <<"gasprice", "mem_size", "gas_limit", "difficulty",
                                           "number", "timestamp", "coinbase", "blockhash">>))
            IN First(fresh_vars(b.counter, <<"gasprice", "mem_size">>))
    IN Push(Block_new(c))

\* the values of a HashMap whose keys are numbers, in key order
RECURSIVE MapValues(_)
MapValues(m) ==
    IF DOMAIN m = {} THEN <<>>
    ELSE LET k == CHOOSE x \in DOMAIN m : \A y \in DOMAIN m : x <= y
         IN <<m[k]>> \o MapValues([x \in DOMAIN m \ {k} |-> m[x]])

AccountConstraints(s) == [i \in DOMAIN s |-> Account_get_constraints(s[i])]

TxConstraints(s) == [i \in DOMAIN s |-> Transaction_get_constraints(s[i])]

RECURSIVE Flatten(_)
Flatten(ss) == IF ss = <<>> THEN <<>> ELSE Head(ss) \o Flatten(Tail(ss))

get_constraints(env) ==
    Flatten(AccountConstraints(MapValues(env.accounts)))
    \o Flatten(TxConstraints(MapValues(env.transactions)))
    \o env.constraints

\* new_tx_id(&mut self): the Env after the call and the id issued
new_tx_id(env) ==
    [env |-> [env EXCEPT !.tx_counter = @ + 1], ret |-> env.tx_counter + 1]

\* update_env_for_tx with the sender's constraint pushed after the debit
update_env_for_tx_late(env, from, to, tx, tx_id) ==
    LET Debit(from_balance) ==
            [env EXCEPT !.accounts[from].balance = sub(from_balance, tx.callvalue),
                        !.accounts[from].constraints =
                            Append(@, le(tx.callvalue, sub(from_balance, tx.callvalue)))]
        Credit(e1) ==
            [e1 EXCEPT !.accounts[to].balance = add(e1.accounts[to].balance, tx.callvalue)]
        Insert(e2) ==
            [env |-> [e2 EXCEPT !.transactions = MapInsert(@, tx_id, tx)], ret |-> tx_id]
    IN Insert(Credit(Debit(env.accounts[from].balance)))

\* update_env_for_tx that does nothing but store the transaction when the
\* sender is the receiver
update_env_for_tx_skip_self(env, from, to, tx, tx_id) ==
    LET Debit(from_balance) ==
            IF from = to THEN env
            ELSE [env EXCEPT !.accounts[from].constraints =
                                 Append(@, le(tx.callvalue, from_balance)),
                             !.accounts[from].balance = sub(from_balance, tx.callvalue)]
        Credit(e1) ==
            IF from = to THEN e1
            ELSE [e1 EXCEPT !.accounts[to].balance =
                                add(e1.accounts[to].balance, tx.callvalue)]
        Insert(e2) ==
            [env |-> [e2 EXCEPT !.transactions = MapInsert(@, tx_id, tx)], ret |-> tx_id]
    IN Insert(Credit(Debit(env.accounts[from].balance)))

\* update_env_for_tx that reads the receiver's balance before the debit
update_env_for_tx_snapshot(env, from, to, tx, tx_id) ==
    LET Debit(from_balance) ==
            [env EXCEPT !.accounts[from].constraints =
                            Append(@, le(tx.callvalue, from_balance)),
                        !.accounts[from].balance = sub(from_balance, tx.callvalue)]
        Credit(e1) ==
            [e1 EXCEPT !.accounts[to].balance = add(env.accounts[to].balance, tx.callvalue)]
        Insert(e2) ==
            [env |-> [e2 EXCEPT !.transactions = MapInsert(@, tx_id, tx)], ret |-> tx_id]
    IN Insert(Credit(Debit(env.accounts[from].balance)))

\* update_env_for_tx(&mut self, from, to, tx, tx_id)
update_env_for_tx(env, from, to, tx, tx_id) ==
    LET Debit(from_balance) ==
            [env EXCEPT !.accounts[from].constraints =
                            Append(@, le(tx.callvalue, from_balance)),
                        !.accounts[from].balance = sub(from_balance, tx.callvalue)]
        Credit(e1) ==
            [e1 EXCEPT !.accounts[to].balance = add(e1.accounts[to].balance, tx.callvalue)]
        Insert(e2) ==
            [env |-> [e2 EXCEPT !.transactions = MapInsert(@, tx_id, tx)], ret |-> tx_id]
    IN Insert(Credit(Debit(env.accounts[from].balance)))

\* new_attacker_tx(&mut self, memory, attacker, victim)
new_attacker_tx(g, env, attacker, victim) ==
    LET Id(id) ==
            LET Name(nm) ==
                    LET Tx(tx) ==
                            LET Done(u) == [g |-> tx.g, env |-> u.env, ret |-> u.ret]
                            IN Done(update_env_for_tx(id.env, attacker, victim, tx.ret, id.ret))
                    IN Tx(Transaction_with_sender_receiver(
                              [g EXCEPT !.counter = nm.counter], id.ret, nm.ret,
                              env.accounts[attacker].addr, env.accounts[victim].addr))
            IN Name(Counter_fresh_tx_name(g.counter, "initial"))
    IN Id(new_tx_id(env))

\* new_output_tx(&mut self, memory, name, caller, origin, addr, gas, callvalue,
\*               calldata_size, returndata_size)
new_output_tx(g, env, name, caller, origin, addr, gas, callvalue, calldata_size, returndata_size) ==
    LET Id(id) ==
            LET Name(nm) ==
                    LET Tx(tx) ==
                            LET Done(u) == [g |-> tx.g, env |-> u.env, ret |-> u.ret]
                            IN Done(update_env_for_tx(id.env, caller, addr, tx.ret, id.ret))
                    IN Tx(Transaction_new_outgoing(
                              [g EXCEPT !.counter = nm.counter], id.ret, nm.ret,
                              env.accounts[caller].addr, origin, env.accounts[addr].addr,
                              gas, callvalue, calldata_size, returndata_size))
            IN Name(Counter_fresh_tx_name(g.counter, name \o "_output"))
    IN Id(new_tx_id(env))

\* new_acc_id that returns the counter as it was before the increment
new_acc_id_post(env) ==
    [env |-> [env EXCEPT !.acc_counter = @ + 1], ret |-> env.acc_counter]

\* new_acc_id(&mut self): the Env after the call and the id issued
new_acc_id(env) ==
    [env |-> [env EXCEPT !.acc_counter = @ + 1], ret |-> env.acc_counter + 1]

\* CodeCoverage::from_raw(code), kept as the code it covers
CodeCoverage_from_raw(code) == code

\* an insert that keeps the id an address already maps to
insert_account_keep_first(g, env, id, acc, addr) ==
    [g |-> g,
     env |-> [env EXCEPT !.accounts = MapInsert(@, id, acc),
                         !.addresses = IF addr \in DOMAIN @ THEN @
                                       ELSE MapInsert(@, addr, id)],
     ret |-> id]

\* self.accounts.insert(id, acc); self.addresses.insert(addr, id); id
insert_account(g, env, id, acc, addr) ==
    [g |-> g,
     env |-> [env EXCEPT !.accounts = MapInsert(@, id, acc),
                         !.addresses = MapInsert(@, addr, id)],
     ret |-> id]

new_hijack_account(g, env) ==
    LET Id(id) ==
            LET Name(nm) ==
                    LET Acc(acc) ==
                            insert_account(acc.g, id.env, id.ret, acc.ret,
                                           const256("HIJACK_ADDR"))
                    IN Acc(Account_with_addr([g EXCEPT !.counter = nm.counter], id.ret,
                                             nm.ret, const256("HIJACK_ADDR")))
            IN Name(Counter_fresh_account_name(g.counter, "hijack"))
    IN Id(new_acc_id(env))

new_attacker_account(g, env) ==
    LET Id(id) ==
            LET Name(nm) ==
                    LET Acc(acc) ==
                            insert_account(
                                acc.g, id.env, id.ret,
                                [acc.ret EXCEPT !.initial_attacker_balance =
                                                    Some(acc.ret.balance)],
                                const256("ORIGIN"))
                    IN Acc(Account_with_addr([g EXCEPT !.counter = nm.counter], id.ret,
                                             nm.ret, const256("ORIGIN")))
            IN Name(Counter_fresh_account_name(g.counter, "attacker"))
    IN Id(new_acc_id(env))

new_victim_account(g, env, code) ==
    LET Id(id) ==
            LET Name(nm) ==
                    LET Acc(vic) ==
                            insert_account(vic.g, id.env, id.ret, vic.ret,
                                           const256("TARGET_ADDR"))
                    IN Acc(Account_with_addr_and_code(
                               [g EXCEPT !.counter = nm.counter,
                                         !.coverage = MapInsert(@, id.ret,
                                                                CodeCoverage_from_raw(code))],
                               id.ret, nm.ret, const256("TARGET_ADDR"), Some(code)))
            IN Name(Counter_fresh_account_name(g.counter, "victim"))
    IN Id(new_acc_id(env))

new_account(g, env, name, addr, code, balance) ==
    LET Id(id) ==
            LET Name(nm) ==
                    LET Acc(acc) == insert_account(acc.g, id.env, id.ret, acc.ret, addr)
                    IN Acc(Account_with_addr_code_balance(
                               [g EXCEPT !.counter = nm.counter,
                                         !.coverage =
                                             IF IsSome(code)
                                             THEN MapInsert(@, id.ret,
                                                            CodeCoverage_from_raw(Unwrap(code)))
                                             ELSE @],
                               id.ret, nm.ret, addr, code, balance))
            IN Name(Counter_fresh_account_name(g.counter, name))
    IN Id(new_acc_id(env))

try_get_account(env, id) ==
    IF id \in DOMAIN env.accounts THEN Some(env.accounts[id]) ELSE None

try_get_account_id_by_addr(env, addr) ==
    IF addr \in DOMAIN env.addresses THEN Some(env.addresses[addr]) ELSE None

try_get_account_by_addr(env, addr) ==
    LET id == try_get_account_id_by_addr(env, addr)
    IN IF IsSome(id) THEN try_get_account(env, Unwrap(id)) ELSE None

----------------------------------------------------------------------------
(* The inputs the operations are called with *)

Code1 == <<96, 0, 255>>

\* (name, addr, code, balance) of new_account, as from_yaml passes them
AccountInputs ==
    { [name |-> "victim", addr |-> const_vec(<<0, 0, 7, 8>>), code |-> Some(Code1),
       balance |-> const_usize(5)],
      [name |-> "other", addr |-> const256("ORIGIN"), code |-> None,
       balance |-> const_usize(0)] }

\* (name, origin, gas, callvalue, calldata_size, returndata_size) of new_output_tx
OutputInputs ==
    { [name |-> "victim_1", origin |-> const256("ORIGIN"), gas |-> var("stack_gas"),
       callvalue |-> var("stack_value"), calldata_size |-> const_usize(4),
       returndata_size |-> const_usize(0)],
      [name |-> "other_1", origin |-> const256("ORIGIN"), gas |-> const_usize(9),
       callvalue |-> const_usize(3), calldata_size |-> var("stack_size"),
       returndata_size |-> var("stack_ret")] }

----------------------------------------------------------------------------
(* The state of one run and the steps of the analysis on it *)

G == [counter |-> counter, memory |-> memory, coverage |-> coverage]

SetG(g) ==
    /\ counter' = g.counter
    /\ memory' = g.memory
    /\ coverage' = g.coverage

Envs == 1..Len(envs)

Accounts(e) == DOMAIN envs[e].accounts

CanAddAccount(e) == Cardinality(Accounts(e)) < MaxAcc

CanAddTx(e) == Cardinality(DOMAIN envs[e].transactions) < MaxTx

Budget == last.n < MaxOps

Op(name, e, args, ret) ==
    [op |-> name, e |-> e, pre |-> envs[e], args |-> args, ret |-> ret, n |-> last.n + 1]

IdleRest == UNCHANGED <<run2, lock, threads, issued, cfg, cands, report, evm, se, cli, wm, ex, rnd, lg, fr, ch>>

InitRun ==
    LET Run(r) == [counter |-> r.counter, memory |-> new_memory, coverage |-> EmptyMap,
                   envs |-> <<r.ret>>]
    IN Run(Env_new(Counter_new))

\* no explorer, no digests, no ledger, no test runner, no channel
InitAside ==
    /\ ex = <<>>
    /\ rnd = <<>>
    /\ lg = <<>>
    /\ fr = <<>>
    /\ ch = <<>>

\* no Evm, no input file, no command line, no memory under test
InitOther ==
    /\ evm = <<>>
    /\ se = <<>>
    /\ cli = <<>>
    /\ wm = <<>>
    /\ InitAside

InitIdle ==
    /\ lock = 0
    /\ threads = <<>>
    /\ issued = <<>>
    /\ cfg = <<>>
    /\ cands = <<>>
    /\ report = <<>>
    /\ InitOther

InitEnv ==
    /\ run2 = InitRun
    /\ counter = run2.counter
    /\ memory = run2.memory
    /\ coverage = run2.coverage
    /\ envs = run2.envs
    /\ parent = <<0>>
    /\ derived = <<0>>
    /\ last = [op |-> "Env::new", e |-> 1, pre |-> envs[1], args |-> <<>>,
               ret |-> 0, n |-> 0]

Init == InitEnv /\ InitIdle

\* The result r = [g, env, ret] of an operation on envs[e] is written back.
Commit(e, r, name, args) ==
    /\ SetG(r.g)
    /\ envs' = [envs EXCEPT ![e] = r.env]
    /\ last' = Op(name, e, args, r.ret)
    /\ UNCHANGED <<parent, derived>>

Step_new_attacker_account(e) ==
    /\ Budget /\ CanAddAccount(e)
    /\ Commit(e, new_attacker_account(G, envs[e]), "new_attacker_account", <<>>)

Step_new_hijack_account(e) ==
    /\ Budget /\ CanAddAccount(e)
    /\ Commit(e, new_hijack_account(G, envs[e]), "new_hijack_account", <<>>)

Step_new_victim_account(e) ==
    /\ Budget /\ CanAddAccount(e)
    /\ Commit(e, new_victim_account(G, envs[e], Code1), "new_victim_account", <<>>)

Step_new_account(e, in) ==
    /\ Budget /\ CanAddAccount(e)
    /\ Commit(e, new_account(G, envs[e], in.name, in.addr, in.code, in.balance),
              "new_account", <<>>)

Step_new_attacker_tx(e, attacker, victim) ==
    /\ Budget /\ CanAddTx(e)
    /\ Commit(e, new_attacker_tx(G, envs[e], attacker, victim), "new_attacker_tx",
              <<attacker, victim>>)

Step_new_output_tx(e, caller, addr, in) ==
    /\ Budget /\ CanAddTx(e)
    /\ Commit(e, new_output_tx(G, envs[e], in.name, caller, in.origin, addr, in.gas,
                               in.callvalue, in.calldata_size, in.returndata_size),
              "new_output_tx", <<caller, addr>>)

\* let new_env = Env::from_old_env(&envs[e]): the derived Env joins the others
Step_from_old_env(e, vec_addr, vec_hash) ==
    /\ Budget /\ Len(envs) < MaxEnvs
    /\ \E r \in {from_old_env(counter, envs[e], vec_addr, vec_hash)} :
          /\ counter' = r.counter
          /\ envs' = Append(envs, r.ret)
    /\ parent' = Append(parent, e)
    /\ derived' = Append(derived, derived[e] + 1)
    /\ last' = Op("from_old_env", e, <<vec_addr, vec_hash>>, Len(envs) + 1)
    /\ UNCHANGED <<memory, coverage>>

Call_new_attacker_account(e) == Step_new_attacker_account(e) /\ IdleRest

Call_new_hijack_account(e) == Step_new_hijack_account(e) /\ IdleRest

Call_new_victim_account(e) == Step_new_victim_account(e) /\ IdleRest

Call_new_account(e, in) == Step_new_account(e, in) /\ IdleRest

Call_new_attacker_tx(e, attacker, victim) ==
    Step_new_attacker_tx(e, attacker, victim) /\ IdleRest

Call_new_output_tx(e, caller, addr, in) ==
    Step_new_output_tx(e, caller, addr, in) /\ IdleRest

Call_from_old_env(e, vec_addr, vec_hash) ==
    Step_from_old_env(e, vec_addr, vec_hash) /\ IdleRest

Next ==
    \/ \E e \in Envs : Call_new_attacker_account(e)
    \/ \E e \in Envs : Call_new_hijack_account(e)
    \/ \E e \in Envs : Call_new_victim_account(e)
    \/ \E e \in Envs : \E in \in AccountInputs : Call_new_account(e, in)
    \/ \E e \in Envs : \E a, v \in Accounts(e) : Call_new_attacker_tx(e, a, v)
    \/ \E e \in Envs : \E c, t \in Accounts(e) : \E in \in OutputInputs :
           Call_new_output_tx(e, c, t, in)
    \/ \E e \in Envs : \E d \in RandDraws : Call_from_old_env(e, d[1], d[2])

Spec == Init /\ [][Next]_vars

----------------------------------------------------------------------------
(* Two runs of the analysis on the same input.  The second run, run2,      *)
(* performs the same operations with the same arguments as the first; what *)
(* each run draws from thread_rng() is its own.                            *)

G2 == [counter |-> run2.counter, memory |-> run2.memory, coverage |-> run2.coverage]

Commit2(e, r) ==
    run2' = [counter |-> r.g.counter, memory |-> r.g.memory, coverage |-> r.g.coverage,
             envs |-> [run2.envs EXCEPT ![e] = r.env]]

IdleDet == UNCHANGED <<lock, threads, issued, cfg, cands, report, evm, se, cli, wm, ex, rnd, lg, fr, ch>>

Both_new_attacker_account(e) ==
    /\ Step_new_attacker_account(e)
    /\ Commit2(e, new_attacker_account(G2, run2.envs[e]))
    /\ IdleDet

Both_new_account(e, in) ==
    /\ Step_new_account(e, in)
    /\ Commit2(e, new_account(G2, run2.envs[e], in.name, in.addr, in.code, in.balance))
    /\ IdleDet

Both_new_attacker_tx(e, attacker, victim) ==
    /\ Step_new_attacker_tx(e, attacker, victim)
    /\ Commit2(e, new_attacker_tx(G2, run2.envs[e], attacker, victim))
    /\ IdleDet

Both_from_old_env(e, d1, d2) ==
    /\ Step_from_old_env(e, d1[1], d1[2])
    /\ \E r \in {from_old_env(run2.counter, run2.envs[e], d2[1], d2[2])} :
          run2' = [run2 EXCEPT !.counter = r.counter, !.envs = Append(@, r.ret)]
    /\ IdleDet

NextDet ==
    \/ \E e \in Envs : Both_new_attacker_account(e)
    \/ \E e \in Envs : \E in \in AccountInputs : Both_new_account(e, in)
    \/ \E e \in Envs : \E a, v \in Accounts(e) : Both_new_attacker_tx(e, a, v)
    \/ \E e \in Envs : \E d1, d2 \in RandDraws : Both_from_old_env(e, d1, d2)

SpecDet == Init /\ [][NextDet]_vars

----------------------------------------------------------------------------
(* Concurrent callers of fresh_var_name.  A call takes GLOBAL_COUNTER's    *)
(* mutex, looks the prefix up (inserting 0), loads the entry, stores the   *)
(* incremented value, formats the name and releases the mutex when the     *)
(* temporary guard is dropped at the end of the statement.                 *)

MaxThreads == 2
MaxCalls == 3

Prefixes == {"a", "a_1", "b"}

Threads == 1..MaxThreads

Idle == [pc |-> "idle", name |-> "", entry |-> 0]

InFlight == {t \in DOMAIN threads : threads[t].pc # "idle"}

\* a lock that lets a second caller in
Mutex_lock_shared(t) == TRUE

\* parking_lot::Mutex::lock returns only while no other guard is alive
Mutex_lock(t) == lock = 0

IdleCounter ==
    UNCHANGED <<memory, coverage, envs, parent, derived, last, run2, cfg, cands, report,
                evm, se, cli, wm, ex, rnd, lg, fr, ch>>

\* GLOBAL_COUNTER.lock()
fvn_lock(t, name) ==
    /\ threads[t].pc = "idle"
    /\ Len(issued) + Cardinality(InFlight) < MaxCalls
    /\ Mutex_lock(t)
    /\ lock' = t
    /\ threads' = [threads EXCEPT ![t] = [pc |-> "locked", name |-> name, entry |-> 0]]
    /\ UNCHANGED <<counter, issued>>
    /\ IdleCounter

\* let entry = self.var_counters.entry(name.into()).or_insert(0);
fvn_or_insert(t) ==
    /\ threads[t].pc = "locked"
    /\ counter' = [counter EXCEPT !.var_counters =
                       MapInsert(@, threads[t].name, or_insert_0(@, threads[t].name))]
    /\ threads' = [threads EXCEPT ![t].pc = "entry"]
    /\ UNCHANGED <<lock, issued>>
    /\ IdleCounter

\* *entry += 1;  the load
fvn_load(t) ==
    /\ threads[t].pc = "entry"
    /\ threads' = [threads EXCEPT ![t].pc = "loaded",
                                  ![t].entry = counter.var_counters[threads[t].name]]
    /\ UNCHANGED <<counter, lock, issued>>
    /\ IdleCounter

\* *entry += 1;  the store
fvn_store(t) ==
    /\ threads[t].pc = "loaded"
    /\ counter' = [counter EXCEPT !.var_counters[threads[t].name] = threads[t].entry + 1]
    /\ threads' = [threads EXCEPT ![t].pc = "stored"]
    /\ UNCHANGED <<lock, issued>>
    /\ IdleCounter

\* format!("{}_{}", name, *entry); the guard is dropped and the name returned
fvn_return(t) ==
    /\ threads[t].pc = "stored"
    /\ issued' = Append(issued,
                        [name |-> threads[t].name, t |-> t,
                         ret |-> Format(threads[t].name,
                                        counter.var_counters[threads[t].name])])
    /\ lock' = IF lock = t THEN 0 ELSE lock
    /\ threads' = [threads EXCEPT ![t] = Idle]
    /\ UNCHANGED counter
    /\ IdleCounter

InitCounter ==
    /\ counter = Counter_new
    /\ memory = new_memory
    /\ coverage = EmptyMap
    /\ envs = <<>>
    /\ parent = <<>>
    /\ derived = <<>>
    /\ last = [op |-> "none", e |-> 0, pre |-> <<>>, args |-> <<>>, ret |-> 0, n |-> 0]
    /\ run2 = [counter |-> Counter_new, memory |-> new_memory, coverage |-> EmptyMap,
               envs |-> <<>>]
    /\ lock = 0
    /\ threads = [t \in Threads |-> Idle]
    /\ issued = <<>>
    /\ cfg = <<>>
    /\ cands = <<>>
    /\ report = <<>>
    /\ InitOther

NextCounter ==
    \/ \E t \in Threads : \E name \in Prefixes : fvn_lock(t, name)
    \/ \E t \in Threads : fvn_or_insert(t)
    \/ \E t \in Threads : fvn_load(t)
    \/ \E t \in Threads : fvn_store(t)
    \/ \E t \in Threads : fvn_return(t)

SpecCounter == InitCounter /\ [][NextCounter]_vars

----------------------------------------------------------------------------
(* From a satisfiable goal to the report (spec 3, "Flow", and 4.9): the    *)
(* solver's model is a candidate; the concrete validator replays it and    *)
(* accepts it iff the concrete run reproduces the predicted goal.          *)
(* SymbolicConfig::concrete_validation is "the flag indicating whether to  *)
(* perform concrete counterexample validation".                            *)

MaxCands == 2

Goals == {"theft", "hijack", "selfdestruct"}

\* what the deterministic concrete EVM yields for a model: a goal state or not
Outcomes == Goals \cup {"no_goal"}

SymbolicConfig_default ==
    [symbolic_storage |-> FALSE, concrete_validation |-> TRUE, solver |-> 0,
     solver_timeout |-> 100000, loop_bound |-> 5, call_bound |-> 1]

SymbolicConfigs ==
    {[SymbolicConfig_default EXCEPT !.symbolic_storage = s, !.concrete_validation = v,
                                    !.solver = z] :
         s \in BOOLEAN, v \in BOOLEAN, z \in 0..2}

IdleValidate ==
    UNCHANGED <<counter, memory, coverage, envs, parent, derived, last, run2,
                lock, threads, issued, cfg, evm, se, cli, wm, ex, rnd, lg, fr, ch>>

\* C7 decides a goal SAT: the model is a candidate.  The model may satisfy only
\* an over-approximation, so its concrete outcome is any of Outcomes.
SolverSat(goal, outcome) ==
    /\ Len(cands) < MaxCands
    /\ cands' = Append(cands, [goal |-> goal, outcome |-> outcome,
                               replayed |-> FALSE, status |-> "candidate"])
    /\ UNCHANGED report
    /\ IdleValidate

\* "Accepts the counterexample iff the concrete run reproduces the predicted goal."
Accepts(c) == c.outcome = c.goal

\* C9 replays candidate i; divergence: log and discard the candidate
Validate(i) ==
    /\ cfg.concrete_validation
    /\ cands[i].status = "candidate"
    /\ cands' = [cands EXCEPT ![i].replayed = TRUE,
                              ![i].status = IF Accepts(cands[i]) THEN "validated"
                                            ELSE "discarded"]
    /\ UNCHANGED report
    /\ IdleValidate

Reportable(c) ==
    \/ c.status = "validated"
    \/ ~cfg.concrete_validation /\ c.status = "candidate"

Report(i) ==
    /\ i \notin Range(report)
    /\ Reportable(cands[i])
    /\ report' = Append(report, i)
    /\ UNCHANGED cands
    /\ IdleValidate

InitValidate ==
    /\ counter = Counter_new
    /\ memory = new_memory
    /\ coverage = EmptyMap
    /\ envs = <<>>
    /\ parent = <<>>
    /\ derived = <<>>
    /\ last = [op |-> "none", e |-> 0, pre |-> <<>>, args |-> <<>>, ret |-> 0, n |-> 0]
    /\ run2 = [counter |-> Counter_new, memory |-> new_memory, coverage |-> EmptyMap,
               envs |-> <<>>]
    /\ lock = 0
    /\ threads = <<>>
    /\ issued = <<>>
    /\ cfg \in SymbolicConfigs
    /\ cands = <<>>
    /\ report = <<>>
    /\ InitOther

NextValidate ==
    \/ \E goal \in Goals : \E outcome \in Outcomes : SolverSat(goal, outcome)
    \/ \E i \in DOMAIN cands : Validate(i)
    \/ \E i \in DOMAIN cands : Report(i)

SpecValidate == InitValidate /\ [][NextValidate]_vars

----------------------------------------------------------------------------
(* The concrete EVM (evmexec): an Evm and a Revm instance, each a CacheDB   *)
(* over an empty database plus the Genesis it was built from.  Addresses    *)
(* and storage words are names; balances and nonces are numbers.  The       *)
(* contracts are those of multiple_transactions_test (an owned contract and *)
(* the wallet it drains) and a factory that executes CREATE.                *)

MaxExec == 3

Senders == {"S", "T"}

\* AccountInfo::default() with empty storage: what CacheDB<EmptyDB> loads for
\* an address it has never seen
DefaultAccount == [balance |-> 0, nonce |-> 0, code |-> "none", storage |-> EmptyMap]

DbGet(db, a) == IF a \in DOMAIN db THEN db[a] ELSE DefaultAccount

SLoad(db, a, slot) ==
    IF slot \in DOMAIN DbGet(db, a).storage THEN DbGet(db, a).storage[slot] ELSE "0"

DbPut(db, a, acc) == [x \in DOMAIN db \cup {a} |-> IF x = a THEN acc ELSE db[x]]

\* setup_evm(): sender with nonce 1, the owned contract A whose slot 1 names
\* the wallet B, the wallet B holding funds whose slot 0 names A
TestGenesis ==
    [S |-> [balance |-> 0, code |-> "none", nonce |-> 1, storage |-> EmptyMap],
     A |-> [balance |-> 0, code |-> "Owned", nonce |-> 1,
            storage |-> [slot \in {0, 1} |-> IF slot = 0 THEN "0" ELSE "B"]],
     B |-> [balance |-> 7, code |-> "Wallet", nonce |-> 1,
            storage |-> [slot \in {0} |-> "A"]]]

\* the genesis an Env converts to: every nonce 0, funded accounts
FundedGenesis ==
    [S |-> [balance |-> 2, code |-> "none", nonce |-> 0, storage |-> EmptyMap],
     A |-> [balance |-> 0, code |-> "Owned", nonce |-> 0,
            storage |-> [slot \in {0, 1} |-> IF slot = 0 THEN "T" ELSE "B"]],
     B |-> [balance |-> 7, code |-> "Wallet", nonce |-> 0,
            storage |-> [slot \in {0} |-> "A"]],
     F |-> [balance |-> 0, code |-> "Factory", nonce |-> 1, storage |-> EmptyMap]]

Geneses == {TestGenesis, FundedGenesis}

\* EvmInput { input_data, sender, receiver, gas, value }: input_data is the
\* function called, its address argument being the sender
Calls == {<<"claim", "A">>, <<"drain", "A">>, <<"deploy", "F">>, <<"none", "T">>}

EvmInputs ==
    {[input_data |-> c[1], sender |-> s, receiver |-> c[2], gas |-> 100000, value |-> v] :
         c \in Calls, s \in Senders, v \in {0, 1}}

\* Evm::new(genesis) / Revm::new(genesis)
Evm_new(genesis) ==
    [db |-> EmptyMap, genesis |-> genesis, loaded |-> FALSE, inputs |-> <<>>,
     results |-> <<>>, pre |-> EmptyMap, error |-> "", panicked |-> FALSE]

\* update_state_from_genesis: insert_account_info and insert_account_storage
\* for every account of genesis.alloc
update_state_from_genesis(db, genesis) ==
    [a \in DOMAIN db \cup DOMAIN genesis |->
        IF a \in DOMAIN genesis
        THEN [balance |-> genesis[a].balance,
              nonce |-> genesis[a].nonce,
              code |-> genesis[a].code,
              storage |-> [slot \in DOMAIN DbGet(db, a).storage \cup DOMAIN genesis[a].storage |->
                              IF slot \in DOMAIN genesis[a].storage
                              THEN genesis[a].storage[slot]
                              ELSE db[a].storage[slot]]]
        ELSE db[a]]

\* the checks revm makes before it runs a transaction (gas price 0): "" when
\* the transaction is accepted
TxError(db, input, nonce) ==
    CASE DbGet(db, input.sender).code # "none" -> "RejectCallerWithCode"
      [] DbGet(db, input.sender).nonce # nonce -> "NonceMismatch"
      [] DbGet(db, input.sender).balance < input.value -> "LackOfFundForMaxFee"
      [] OTHER -> ""

Transfer(db, from, to, value) ==
    IF from = to \/ value = 0 THEN db
    ELSE LET d1 == DbPut(db, from, [DbGet(db, from) EXCEPT !.balance = @ - value])
         IN DbPut(d1, to, [DbGet(d1, to) EXCEPT !.balance = @ + value])

\* the address CREATE gives the first contract made by the factory
Created == "N"

\* the wallet's pay(beneficiary): only its owner, slot 0, may call it
RunWallet(db, caller, self, beneficiary) ==
    IF SLoad(db, self, 0) # caller THEN [ok |-> FALSE, db |-> db]
    ELSE [ok |-> TRUE, db |-> Transfer(db, self, beneficiary, DbGet(db, self).balance)]

\* The code of `self` run on db for a call from caller: ok is FALSE when the
\* frame reverts or halts.
RunCode(db, caller, self, data, value) ==
    LET code == DbGet(db, self).code
    IN CASE code = "none" -> [ok |-> TRUE, db |-> db]
         [] code = "Owned" /\ data = "claim" /\ value = 0 ->
                [ok |-> TRUE,
                 db |-> DbPut(db, self, [DbGet(db, self) EXCEPT
                                            !.storage = MapInsert(@, 0, caller)])]
         [] code = "Owned" /\ data = "drain" /\ value = 0 /\ SLoad(db, self, 0) = caller ->
                RunWallet(db, self, SLoad(db, self, 1), caller)
         [] code = "Wallet" /\ data = "drain" /\ value = 0 ->
                RunWallet(db, caller, self, caller)
         [] code = "Factory" /\ data = "deploy" /\ DbGet(db, Created).nonce = 0 ->
                [ok |-> TRUE,
                 db |-> DbPut(DbPut(db, self, [DbGet(db, self) EXCEPT !.nonce = @ + 1]),
                              Created, [DbGet(db, Created) EXCEPT !.nonce = 1])]
         [] OTHER -> [ok |-> FALSE, db |-> db]

\* inspect_replay_commit on db for a transaction that passed the checks: the
\* sender's nonce is bumped, then the call runs; a failed call keeps only the
\* nonce
Transact(db, input) ==
    LET bumped == DbPut(db, input.sender,
                        [DbGet(db, input.sender) EXCEPT !.nonce = @ + 1])
        paid == Transfer(bumped, input.sender, input.receiver, input.value)
        ran == RunCode(paid, input.sender, input.receiver, input.input_data, input.value)
    IN IF ran.ok THEN [ok |-> TRUE, db |-> ran.db] ELSE [ok |-> FALSE, db |-> bumped]

\* Evm::execute building its EVM on a clone of the db
Evm_execute_on_clone(ev, input) ==
    LET nonce == DbGet(ev.db, input.sender).nonce
    IN IF TxError(ev.db, input, nonce) # ""
       THEN [ev EXCEPT !.panicked = TRUE, !.error = TxError(ev.db, input, nonce)]
       ELSE [ev EXCEPT !.pre = ev.db,
                       !.inputs = Append(@, input),
                       !.results = Append(@, Transact(ev.db, input).ok)]

\* Evm::execute leaving tx.nonce at its default
Evm_execute_nonce_0(ev, input) ==
    IF TxError(ev.db, input, 0) # ""
    THEN [ev EXCEPT !.panicked = TRUE, !.error = TxError(ev.db, input, 0)]
    ELSE [ev EXCEPT !.db = Transact(ev.db, input).db,
                    !.pre = ev.db,
                    !.inputs = Append(@, input),
                    !.results = Append(@, Transact(ev.db, input).ok)]

\* Evm::execute(&mut self, input): the nonce is read from self.db, the EVM is
\* built with_db(&mut self.db) and commits into it; .unwrap() panics when the
\* transaction is rejected
Evm_execute(ev, input) ==
    LET nonce == DbGet(ev.db, input.sender).nonce
    IN IF TxError(ev.db, input, nonce) # ""
       THEN [ev EXCEPT !.panicked = TRUE, !.error = TxError(ev.db, input, nonce)]
       ELSE [ev EXCEPT !.db = Transact(ev.db, input).db,
                       !.pre = ev.db,
                       !.inputs = Append(@, input),
                       !.results = Append(@, Transact(ev.db, input).ok)]

\* Revm::execute(&mut self, input): the EVM is built with_db(self.db.clone())
\* and tx.nonce is left at its default 0; what it commits goes to the clone
Revm_execute(rv, input) ==
    IF TxError(rv.db, input, 0) # ""
    THEN [rv EXCEPT !.panicked = TRUE, !.error = TxError(rv.db, input, 0)]
    ELSE [rv EXCEPT !.pre = rv.db,
                    !.inputs = Append(@, input),
                    !.results = Append(@, Transact(rv.db, input).ok)]

IdleEvm ==
    UNCHANGED <<counter, memory, coverage, envs, parent, derived, last, run2,
                lock, threads, issued, cfg, cands, report, se, cli, wm, ex, rnd, lg, fr, ch>>

\* the instance a test works on: the Evm of evm.rs or the Revm of revm.rs
Uses(which) == evm.use = which

Call_Evm_update_state_from_genesis ==
    /\ Uses("Evm")
    /\ ~evm.e.loaded
    /\ evm' = [evm EXCEPT !.e.db = update_state_from_genesis(@, evm.e.genesis),
                          !.e.loaded = TRUE]
    /\ IdleEvm

Call_Revm_update_state_from_genesis ==
    /\ Uses("Revm")
    /\ ~evm.r.loaded
    /\ evm' = [evm EXCEPT !.r.db = update_state_from_genesis(@, evm.r.genesis),
                          !.r.loaded = TRUE]
    /\ IdleEvm

Call_Evm_execute(input) ==
    /\ evm.e.loaded /\ ~evm.e.panicked
    /\ Len(evm.e.inputs) < MaxExec
    /\ evm' = [evm EXCEPT !.e = Evm_execute(@, input)]
    /\ IdleEvm

Call_Revm_execute(input) ==
    /\ evm.r.loaded /\ ~evm.r.panicked
    /\ Len(evm.r.inputs) < MaxExec
    /\ evm' = [evm EXCEPT !.r = Revm_execute(@, input)]
    /\ IdleEvm

InitEvm ==
    /\ counter = Counter_new
    /\ memory = new_memory
    /\ coverage = EmptyMap
    /\ envs = <<>>
    /\ parent = <<>>
    /\ derived = <<>>
    /\ last = [op |-> "none", e |-> 0, pre |-> <<>>, args |-> <<>>, ret |-> 0, n |-> 0]
    /\ run2 = [counter |-> Counter_new, memory |-> new_memory, coverage |-> EmptyMap,
               envs |-> <<>>]
    /\ lock = 0
    /\ threads = <<>>
    /\ issued = <<>>
    /\ cfg = <<>>
    /\ cands = <<>>
    /\ report = <<>>
    /\ \E genesis \in Geneses : \E which \in {"Evm", "Revm"} :
          evm = [e |-> Evm_new(genesis), r |-> Evm_new(genesis), use |-> which]
    /\ se = <<>>
    /\ cli = <<>>
    /\ wm = <<>>
    /\ InitAside

NextEvm ==
    \/ Call_Evm_update_state_from_genesis
    \/ Call_Revm_update_state_from_genesis
    \/ \E input \in EvmInputs : Call_Evm_execute(input)
    \/ \E input \in EvmInputs : Call_Revm_execute(input)

SpecEvm == InitEvm /\ [][NextEvm]_vars

----------------------------------------------------------------------------
(* SeEnviroment::from_yaml and the conversion of an Env into a Genesis *)

MaxEntries == 2
MaxSeOps == 2

\* a YAML scalar is Yaml::Integer(i) or a Yaml::String of hex digits, kept
\* as the bytes it decodes to
YInt(i) == <<"Integer", i>>
YHex(bytes) == <<"String", bytes>>

\* parse_yaml_value(val)
parse_yaml_value(val) ==
    IF val[1] = "String" THEN const_vec(val[2]) ELSE const_usize(val[2])

\* the big-endian number of a byte string
RECURSIVE BytesValue(_)
BytesValue(bytes) ==
    IF bytes = <<>> THEN 0 ELSE BytesValue(SubSeq(bytes, 1, Len(bytes) - 1)) * 256 + bytes[Len(bytes)]

\* BitVec::as_revm_u256(&bval) of a constant
as_revm_u256(bval) == IF bval[1] = "cvec" THEN BytesValue(bval[2]) ELSE bval[2]

\* word_write(&mut memory, mval, &addr, &val): a new node on top of mval
word_write(m, mval, addr, val) ==
    [memory |-> Append(m, [m[mval] EXCEPT !.parent = Some(mval),
                                          !.op = <<"Write256", addr, val>>]),
     ret |-> Len(m) + 1]

\* the entries of the `state` map the inputs are built from: the key as it is
\* written, the address it decodes to, and the fields of the entry
StateEntries ==
    { [key |-> "0x07", addr |-> <<7>>, balance |-> YHex(<<1, 0>>), code |-> Some(Code1),
       storage |-> Some(<<<<YHex(<<0>>), YHex(<<3>>)>>, <<YInt(1), YHex(<<3>>)>>>>),
       owner |-> Some(YInt(0))],
      [key |-> "0x09", addr |-> <<9>>, balance |-> YInt(1), code |-> None,
       storage |-> None, owner |-> None],
      [key |-> "0X07", addr |-> <<7>>, balance |-> YInt(2), code |-> None,
       storage |-> Some(<<<<YInt(1), YInt(4)>>>>), owner |-> Some(YInt(1))],
      [key |-> "0x0b", addr |-> <<11>>, balance |-> YInt(0), code |-> Some(Code1),
       storage |-> None, owner |-> None] }

\* the keys of one map are distinct
States ==
    {st \in UNION {[1..n -> StateEntries] : n \in 0..MaxEntries} :
        \A i, j \in DOMAIN st : st[i].key = st[j].key => i = j}

Yamls == {[victim |-> v, state |-> st] : v \in {<<7>>, <<9>>, <<5>>}, st \in States}

\* the `storage` map of an entry written into the account's storage, pair by pair
RECURSIVE LoadStorage(_, _, _)
LoadStorage(m, mval, pairs) ==
    IF pairs = <<>> THEN [memory |-> m, ret |-> mval]
    ELSE LET Rest(w) == LoadStorage(w.memory, w.ret, Tail(pairs))
         IN Rest(word_write(m, mval, parse_yaml_value(Head(pairs)[1]),
                            parse_yaml_value(Head(pairs)[2])))

InitialStorage(pairs) ==
    [i \in DOMAIN pairs |-> <<as_revm_u256(parse_yaml_value(pairs[i][1])),
                              as_revm_u256(parse_yaml_value(pairs[i][2]))>>]

\* the body of the loop of from_yaml for one entry s; st = [g, env, victim]
LoadEntry(st, victim_addr, s) ==
    LET account_addr == const_vec(s.addr)
        account_balance == parse_yaml_value(s.balance)
        name == IF account_addr = victim_addr THEN "victim" ELSE "other"
        WithStorage(r) ==
            IF IsSome(s.storage)
            THEN LET Written(w) ==
                         [g |-> [r.g EXCEPT !.memory = w.memory],
                          env |-> [r.env EXCEPT
                                      !.accounts[r.ret].storage = w.ret,
                                      !.accounts[r.ret].initial_storage =
                                          Some(InitialStorage(Unwrap(s.storage)))],
                          ret |-> r.ret]
                 IN Written(LoadStorage(r.g.memory, r.env.accounts[r.ret].storage,
                                        Unwrap(s.storage)))
            ELSE r
        WithOwner(r) ==
            IF IsSome(s.owner)
            THEN [r EXCEPT !.env.accounts[r.ret].owner = Some(parse_yaml_value(Unwrap(s.owner)))]
            ELSE r
        Loaded(r) ==
            IF IsSome(s.code) THEN WithOwner(WithStorage(r)) ELSE r
        Saved(r) ==
            [g |-> r.g,
             env |-> [r.env EXCEPT
                         !.accounts[r.ret].initial_balance =
                             Some(as_revm_u256(account_balance)),
                         !.loaded_accounts =
                             Some(Append(IF IsSome(@) THEN Unwrap(@) ELSE <<>>, r.ret))],
             victim |-> IF account_addr = victim_addr THEN r.ret ELSE st.victim]
    IN Saved(Loaded(new_account(st.g, st.env, name, account_addr, s.code, account_balance)))

RECURSIVE LoadEntries(_, _, _)
LoadEntries(st, victim_addr, entries) ==
    IF entries = <<>> THEN st
    ELSE LoadEntries(LoadEntry(st, victim_addr, Head(entries)), victim_addr, Tail(entries))

\* from_yaml that makes no hijack account
from_yaml_no_hijack(yaml) ==
    LET New(e) ==
            LET Attacker(a) ==
                    LET Done(st) ==
                            [env |-> st.env, from |-> a.ret, to |-> st.victim,
                             memory |-> st.g.memory, counter |-> st.g.counter,
                             coverage |-> st.g.coverage]
                    IN Done(LoadEntries([g |-> a.g, env |-> a.env, victim |-> 0],
                                        const_vec(yaml.victim), yaml.state))
            IN Attacker(new_attacker_account(
                            [counter |-> e.counter, memory |-> new_memory,
                             coverage |-> EmptyMap], e.ret))
    IN New(Env_new(Counter_new))

\* SeEnviroment::from_yaml(yaml), with the counter and the coverage table the
\* constructors write to
from_yaml(yaml) ==
    LET New(e) ==
            LET Attacker(a) ==
                    LET Hijack(h) ==
                            LET Done(st) ==
                                    [env |-> st.env, from |-> a.ret, to |-> st.victim,
                                     memory |-> st.g.memory, counter |-> st.g.counter,
                                     coverage |-> st.g.coverage]
                            IN Done(LoadEntries([g |-> h.g, env |-> h.env, victim |-> 0],
                                                const_vec(yaml.victim), yaml.state))
                    IN Hijack(new_hijack_account(a.g, a.env))
            IN Attacker(new_attacker_account(
                            [counter |-> e.counter, memory |-> new_memory,
                             coverage |-> EmptyMap], e.ret))
    IN New(Env_new(Counter_new))

\* U256::from(10_000_000_000_000_000_000u64); the U256 balances of a Genesis
\* are kept as decimal numerals
TenEther == "10000000000000000000"

\* the conversion taking the account's current balance for the Genesis
Into_Account_current_balance(acc) ==
    LET RECURSIVE Insert(_, _)
        Insert(s, stor) ==
            IF stor = <<>> THEN s
            ELSE Insert(MapInsert(s, Head(stor)[1], Head(stor)[2]), Tail(stor))
    IN [balance |-> IF acc.balance[1] \in {"const", "cvec"}
                    THEN ToString(as_revm_u256(acc.balance))
                    ELSE TenEther,
        code |-> acc.code,
        nonce |-> 0,
        storage |-> IF IsSome(acc.initial_storage)
                    THEN Insert(EmptyMap, Unwrap(acc.initial_storage))
                    ELSE EmptyMap]

\* impl Into<genesis::Account> for Account
Into_Account(acc) ==
    LET RECURSIVE Insert(_, _)
        Insert(s, stor) ==
            IF stor = <<>> THEN s
            ELSE Insert(MapInsert(s, Head(stor)[1], Head(stor)[2]), Tail(stor))
    IN [balance |-> IF IsSome(acc.initial_balance)
                    THEN ToString(Unwrap(acc.initial_balance))
                    ELSE TenEther,
        code |-> acc.code,
        nonce |-> 0,
        storage |-> IF IsSome(acc.initial_storage)
                    THEN Insert(EmptyMap, Unwrap(acc.initial_storage))
                    ELSE EmptyMap]

\* Address::from_slice(&as_bigint(&account.addr)[12..32])
GenesisAddress(addr) ==
    IF addr[1] = "cvec" THEN <<"address", ToString(BytesValue(addr[2]))>> ELSE addr

\* impl Into<genesis::Genesis> for Env: the accounts are added in the
\* iteration order of a HashMap, so of two accounts with one address either
\* may be the one the Genesis keeps; for each address, the accounts the
\* Genesis may hold there
Into_Genesis(env) ==
    LET Addrs == {GenesisAddress(env.accounts[id].addr) : id \in DOMAIN env.accounts}
        At(a) == {Into_Account(env.accounts[id]) :
                      id \in {i \in DOMAIN env.accounts :
                                 GenesisAddress(env.accounts[i].addr) = a}}
    IN [a \in Addrs |-> At(a)]

IdleYaml ==
    UNCHANGED <<counter, memory, coverage, envs, parent, derived, last, run2, lock, threads,
                issued, cfg, cands, report, evm, cli, wm, ex, rnd, lg, fr, ch>>

SeG == [counter |-> se.counter, memory |-> se.memory, coverage |-> se.coverage]

SeBudget == se.loaded /\ se.n < MaxSeOps

\* the result r = [g, env, ret] of an Env operation written back
SeCommit(r, name) ==
    se' = [se EXCEPT !.env = r.env, !.counter = r.g.counter, !.memory = r.g.memory,
                     !.coverage = r.g.coverage, !.n = @ + 1, !.op = name]

Call_from_yaml ==
    /\ ~se.loaded
    /\ "yaml" \in DOMAIN se
    /\ \E r \in {from_yaml(se.yaml)} :
          se' = [loaded |-> TRUE, yaml |-> se.yaml, env |-> r.env, from |-> r.from,
                 to |-> r.to, memory |-> r.memory, counter |-> r.counter,
                 coverage |-> r.coverage, n |-> 0, op |-> "from_yaml",
                 genesis |-> Into_Genesis(r.env)]
    /\ IdleYaml

\* the attacker's transaction to the victim account
Yaml_new_attacker_tx ==
    /\ SeBudget
    /\ se.to \in DOMAIN se.env.accounts
    /\ SeCommit(new_attacker_tx(SeG, se.env, se.from, se.to), "new_attacker_tx")
    /\ IdleYaml

\* a call the victim makes to one of the accounts
Yaml_new_output_tx(addr, in) ==
    /\ SeBudget
    /\ se.to \in DOMAIN se.env.accounts
    /\ addr \in DOMAIN se.env.accounts
    /\ SeCommit(new_output_tx(SeG, se.env, in.name, se.to, in.origin, addr, in.gas,
                              in.callvalue, in.calldata_size, in.returndata_size),
                "new_output_tx")
    /\ IdleYaml

Yaml_from_old_env(vec_addr, vec_hash) ==
    /\ SeBudget
    /\ \E r \in {from_old_env(se.counter, se.env, vec_addr, vec_hash)} :
          se' = [se EXCEPT !.env = r.ret, !.counter = r.counter, !.n = @ + 1,
                           !.op = "from_old_env"]
    /\ IdleYaml

\* a storage write of the executed code: the account's storage becomes a new
\* node on top of the old one
Yaml_storage_write(id, slot, val) ==
    /\ SeBudget
    /\ id \in DOMAIN se.env.accounts
    /\ \E w \in {word_write(se.memory, se.env.accounts[id].storage, slot, val)} :
          se' = [se EXCEPT !.env.accounts[id].storage = w.ret, !.memory = w.memory,
                           !.n = @ + 1, !.op = "storage_write"]
    /\ IdleYaml

InitYaml ==
    /\ InitEnv
    /\ lock = 0
    /\ threads = <<>>
    /\ issued = <<>>
    /\ cfg = <<>>
    /\ cands = <<>>
    /\ report = <<>>
    /\ evm = <<>>
    /\ cli = <<>>
    /\ wm = <<>>
    /\ InitAside
    /\ \E yaml \in Yamls : se = [loaded |-> FALSE, yaml |-> yaml]

NextYaml ==
    \/ Call_from_yaml
    \/ Yaml_new_attacker_tx
    \/ \E addr \in 1..2 : \E in \in {x \in OutputInputs : x.name = "victim_1"} :
          Yaml_new_output_tx(addr, in)
    \/ \E d \in {x \in RandDraws : x[1][1] = 255} : Yaml_from_old_env(d[1], d[2])
    \/ Yaml_storage_write(se.to, var("stack_slot"), var("stack_word"))

SpecYaml == InitYaml /\ [][NextYaml]_vars

----------------------------------------------------------------------------
(* SeEnviroment::from_foundry, next to from_yaml *)

\* U256::to_string(): the decimal digits of a number
RECURSIVE U256_to_string(_)
U256_to_string(n) ==
    IF n < 10 THEN <<n>> ELSE Append(U256_to_string(n \div 10), n % 10)

\* const256(&str) of a decimal numeral
const256_decimal(digits) ==
    LET RECURSIVE Value(_)
        Value(d) == IF d = <<>> THEN 0 ELSE Value(SubSeq(d, 1, Len(d) - 1)) * 10 + d[Len(d)]
    IN const_usize(Value(digits))

\* the accounts of Foundry's state: the Address, AccountInfo's balance and
\* code, and the storage slots with their present values
FoundryAccounts ==
    { [addr |-> <<0, 0, 7>>, balance |-> 12, code |-> Some(Code1),
       storage |-> <<<<0, 3>>, <<1, 10>>>>],
      [addr |-> <<0, 0, 9>>, balance |-> 0, code |-> None, storage |-> <<>>],
      [addr |-> <<0, 1, 7>>, balance |-> 5, code |-> Some(Code1), storage |-> <<<<2, 0>>>>] }

\* storage_info in the order its iterator yields it: a map, its keys distinct
StorageInfos ==
    {st \in UNION {[1..n -> FoundryAccounts] : n \in 0..MaxEntries} :
        \A i, j \in DOMAIN st : st[i].addr = st[j].addr => i = j}

\* analyzed_address as the bytes its hex digits decode to
Foundries ==
    {[analyzed_address |-> v, signature |-> "prove()", storage_info |-> st] :
        v \in {<<0, 0, 7>>, <<9>>, <<0, 0, 5>>}, st \in StorageInfos}

\* the slots of a Foundry account written into the account's storage
RECURSIVE FoundryStorage(_, _, _)
FoundryStorage(m, mval, slots) ==
    IF slots = <<>> THEN [memory |-> m, ret |-> mval]
    ELSE LET Rest(w) == FoundryStorage(w.memory, w.ret, Tail(slots))
         IN Rest(word_write(m, mval, const256_decimal(U256_to_string(Head(slots)[1])),
                            const256_decimal(U256_to_string(Head(slots)[2]))))

\* the body of the loop of from_foundry for one account; st = [g, env, victim]
FoundryEntry(st, victim_addr, acc) ==
    LET account_addr == const_vec(acc.addr)
        account_balance == const256_decimal(U256_to_string(acc.balance))
        name == IF account_addr = victim_addr THEN "victim" ELSE "other"
        Stored(r) ==
            LET Written(w) ==
                    [g |-> [r.g EXCEPT !.memory = w.memory],
                     env |-> [r.env EXCEPT
                                 !.accounts[r.ret].storage = w.ret,
                                 !.accounts[r.ret].initial_storage =
                                     Some([i \in DOMAIN acc.storage |->
                                              <<as_revm_u256(const256_decimal(
                                                    U256_to_string(acc.storage[i][1]))),
                                                as_revm_u256(const256_decimal(
                                                    U256_to_string(acc.storage[i][2])))>>])],
                     ret |-> r.ret]
            IN Written(FoundryStorage(r.g.memory, r.env.accounts[r.ret].storage, acc.storage))
        Saved(r) ==
            [g |-> r.g,
             env |-> [r.env EXCEPT
                         !.accounts[r.ret].initial_balance =
                             Some(as_revm_u256(account_balance)),
                         !.loaded_accounts =
                             Some(Append(IF IsSome(@) THEN Unwrap(@) ELSE <<>>, r.ret))],
             victim |-> IF account_addr = victim_addr THEN r.ret ELSE st.victim]
    IN Saved(Stored(new_account(st.g, st.env, name, account_addr, acc.code, account_balance)))

RECURSIVE FoundryEntries(_, _, _)
FoundryEntries(st, victim_addr, accs) ==
    IF accs = <<>> THEN st
    ELSE FoundryEntries(FoundryEntry(st, victim_addr, Head(accs)), victim_addr, Tail(accs))

\* from_foundry whose victim starts as the attacker's id
from_foundry_victim_attacker(analyzed_address, signature, storage_info) ==
    LET New(e) ==
            LET Attacker(a) ==
                    LET Hijack(h) ==
                            LET Done(st) ==
                                    [env |-> st.env, from |-> a.ret, to |-> st.victim,
                                     memory |-> st.g.memory, counter |-> st.g.counter,
                                     coverage |-> st.g.coverage]
                            IN Done(FoundryEntries(
                                        [g |-> h.g,
                                         env |-> [h.env EXCEPT !.func_selector = Some(signature)],
                                         victim |-> a.ret],
                                        const_vec(analyzed_address), storage_info))
                    IN Hijack(new_hijack_account(a.g, a.env))
            IN Attacker(new_attacker_account(
                            [counter |-> e.counter, memory |-> new_memory,
                             coverage |-> EmptyMap], e.ret))
    IN New(Env_new(Counter_new))

\* SeEnviroment::from_foundry(analyzed_address, signature, storage_info)
from_foundry(analyzed_address, signature, storage_info) ==
    LET New(e) ==
            LET Attacker(a) ==
                    LET Hijack(h) ==
                            LET Done(st) ==
                                    [env |-> st.env, from |-> a.ret, to |-> st.victim,
                                     memory |-> st.g.memory, counter |-> st.g.counter,
                                     coverage |-> st.g.coverage]
                            IN Done(FoundryEntries(
                                        [g |-> h.g,
                                         env |-> [h.env EXCEPT !.func_selector = Some(signature)],
                                         victim |-> 0],
                                        const_vec(analyzed_address), storage_info))
                    IN Hijack(new_hijack_account(a.g, a.env))
            IN Attacker(new_attacker_account(
                            [counter |-> e.counter, memory |-> new_memory,
                             coverage |-> EmptyMap], e.ret))
    IN New(Env_new(Counter_new))

Call_from_foundry ==
    /\ ~se.loaded
    /\ "foundry" \in DOMAIN se
    /\ \E r \in {from_foundry(se.foundry.analyzed_address, se.foundry.signature,
                              se.foundry.storage_info)} :
          se' = [loaded |-> TRUE, foundry |-> se.foundry, env |-> r.env, from |-> r.from,
                 to |-> r.to, memory |-> r.memory, counter |-> r.counter,
                 coverage |-> r.coverage, n |-> 0, op |-> "from_foundry",
                 genesis |-> Into_Genesis(r.env)]
    /\ IdleYaml

InitLoad ==
    /\ InitEnv
    /\ lock = 0
    /\ threads = <<>>
    /\ issued = <<>>
    /\ cfg = <<>>
    /\ cands = <<>>
    /\ report = <<>>
    /\ evm = <<>>
    /\ cli = <<>>
    /\ wm = <<>>
    /\ InitAside
    /\ \/ \E yaml \in Yamls : se = [loaded |-> FALSE, yaml |-> yaml]
       \/ \E f \in Foundries : se = [loaded |-> FALSE, foundry |-> f]

NextLoad ==
    \/ Call_from_yaml
    \/ Call_from_foundry
    \/ Yaml_new_attacker_tx
    \/ \E addr \in 1..2 : \E in \in {x \in OutputInputs : x.name = "victim_1"} :
          Yaml_new_output_tx(addr, in)

SpecLoad == InitLoad /\ [][NextLoad]_vars

----------------------------------------------------------------------------
(* The command line: main, analysis and single_analysis of esvm *)

\* the exit status of a process whose main thread panicked
PanicExit == 101

\* what the input file is: it cannot be opened, it is not UTF-8 text, it is
\* not YAML, it holds no document, a field holds a bad hex string, or it is
\* a well-formed input
InputFiles == {"unreadable", "not_text", "bad_yaml", "no_document", "bad_hex", "ok"}

\* the values --solver is given, and <<>> for an absent option
SolverArgs == {None, Some("z3"), Some("boolector"), Some("yices2"), Some("yice"), Some("cvc4")}

\* CONFIG.cores and CONFIG.solver_timeout
Configs == {[cores |-> c, solver_timeout |-> 120000] : c \in {1, 2}}

Argvs ==
    {[INPUT |-> f, solver |-> s, json |-> j, both_optimizations |-> b] :
        f \in InputFiles, s \in SolverArgs, j \in BOOLEAN, b \in BOOLEAN}

IdleCli ==
    UNCHANGED <<counter, memory, coverage, envs, parent, derived, last, run2, lock, threads,
                issued, cfg, cands, report, evm, se, wm, ex, rnd, lg, fr, ch>>

\* a panic unwinds main: nothing more runs and the process exits with 101
Panic(c, at) == [c EXCEPT !.pc = "exited", !.exit = Some(PanicExit), !.panic = at]

\* main up to the call of single_analysis: parse_args, init_logger and the
\* assertion of analysis
Cli_main ==
    /\ cli.pc = "main"
    /\ cli' = IF cli.argv.both_optimizations THEN Panic(cli, "analysis")
              ELSE [cli EXCEPT !.pc = "open"]
    /\ IdleCli

\* File::open(input).unwrap()
Cli_open ==
    /\ cli.pc = "open"
    /\ cli' = IF cli.argv.INPUT = "unreadable" THEN Panic(cli, "File::open")
              ELSE [cli EXCEPT !.pc = "read"]
    /\ IdleCli

\* f.read_to_string(&mut s).unwrap()
Cli_read_to_string ==
    /\ cli.pc = "read"
    /\ cli' = IF cli.argv.INPUT = "not_text" THEN Panic(cli, "read_to_string")
              ELSE [cli EXCEPT !.pc = "load"]
    /\ IdleCli

\* YamlLoader::load_from_str(&s).unwrap() and the indexing yaml[0]
Cli_load_from_str ==
    /\ cli.pc = "load"
    /\ cli' = IF cli.argv.INPUT \in {"bad_yaml", "no_document"}
              THEN Panic(cli, "load_from_str")
              ELSE [cli EXCEPT !.pc = "from_yaml"]
    /\ IdleCli

\* SeEnviroment::from_yaml(&yaml[0]): hexdecode::decode(..).unwrap()
Cli_from_yaml ==
    /\ cli.pc = "from_yaml"
    /\ cli' = IF cli.argv.INPUT = "bad_hex" THEN Panic(cli, "from_yaml")
              ELSE [cli EXCEPT !.pc = "pool", !.se_env = TRUE]
    /\ IdleCli

\* the match on matches.value_of("solver")
Solvers(solver, config) ==
    CASE solver = None ->
             Some([kind |-> "Yice", count |-> config.cores, timeout |-> config.solver_timeout])
      [] solver = Some("z3") ->
             Some([kind |-> "Z3", count |-> config.cores, timeout |-> config.solver_timeout])
      [] solver = Some("boolector") ->
             Some([kind |-> "Boolector", count |-> config.cores,
                   timeout |-> config.solver_timeout])
      [] solver = Some("yice") ->
             Some([kind |-> "Yice", count |-> config.cores, timeout |-> config.solver_timeout])
      [] OTHER -> None

Cli_pool ==
    /\ cli.pc = "pool"
    /\ cli' = IF Solvers(cli.argv.solver, cli.config) = None
              THEN Panic(cli, "Supplied incorrect solver name")
              ELSE [cli EXCEPT !.pc = "analysis", !.pool = Solvers(cli.argv.solver, cli.config)]
    /\ IdleCli

\* symbolic_analysis(se_env, config, pool)
Cli_symbolic_analysis ==
    /\ cli.pc = "analysis"
    /\ cli' = [cli EXCEPT !.pc = "print", !.analysed = TRUE]
    /\ IdleCli

\* the result printed as JSON or logged line by line; main returns
Cli_print ==
    /\ cli.pc = "print"
    /\ cli' = [cli EXCEPT !.pc = "exited", !.exit = Some(0),
                          !.output = IF cli.argv.json THEN Some("json") ELSE Some("log")]
    /\ IdleCli

InitCli ==
    /\ InitEnv
    /\ lock = 0
    /\ threads = <<>>
    /\ issued = <<>>
    /\ cfg = <<>>
    /\ cands = <<>>
    /\ report = <<>>
    /\ evm = <<>>
    /\ se = <<>>
    /\ wm = <<>>
    /\ InitAside
    /\ \E argv \in Argvs : \E config \in Configs :
          cli = [pc |-> "main", argv |-> argv, config |-> config, se_env |-> FALSE,
                 pool |-> None, analysed |-> FALSE, output |-> None, exit |-> None,
                 panic |-> ""]

NextCli ==
    \/ Cli_main
    \/ Cli_open
    \/ Cli_read_to_string
    \/ Cli_load_from_str
    \/ Cli_from_yaml
    \/ Cli_pool
    \/ Cli_symbolic_analysis
    \/ Cli_print

SpecCli == InitCli /\ [][NextCli]_vars

----------------------------------------------------------------------------
(* Symbolic memory: word writes and word reads on a fresh memory *)

MaxWrites == 3

\* the parent of a node that has one
Parent(m, mval) == Unwrap(m[mval].parent)

\* word_read that skips every write whose index is not the queried term
word_read_syntactic(m, mval, idx) ==
    LET RECURSIVE Walk(_)
        Walk(v) ==
            IF m[v].op[1] = "Fresh" THEN <<"select", m[v].name, idx>>
            ELSE IF m[v].op[2] = idx THEN m[v].op[3]
            ELSE Walk(Parent(m, v))
    IN Walk(mval)

\* word_read(&memory, mval, &idx): the chain is walked from mval; a write to
\* the queried index gives its word, a write to an index known to differ is
\* skipped, any other write gives Ite(eq(stored, idx), word, rest); the fresh
\* base gives select(base, idx)
word_read(m, mval, idx) ==
    LET RECURSIVE Walk(_)
        Walk(v) ==
            IF m[v].op[1] = "Fresh" THEN <<"select", m[v].name, idx>>
            ELSE IF m[v].op[2] = idx THEN m[v].op[3]
            ELSE IF IsConst(m[v].op[2]) /\ IsConst(idx) THEN Walk(Parent(m, v))
            ELSE <<"ite", eql(m[v].op[2], idx), m[v].op[3], Walk(Parent(m, v))>>
    IN Walk(mval)

\* the indices and the words written and read: constants and stack values
Indices == {const_usize(0), const_usize(1), var("i"), var("j")}
Words == {const_usize(5), var("v")}

IdleMem ==
    UNCHANGED <<counter, memory, coverage, envs, parent, derived, last, run2, lock, threads,
                issued, cfg, cands, report, evm, se, cli, ex, rnd, lg, fr, ch>>

Mem_word_write(idx, val) ==
    /\ Len(wm.writes) < MaxWrites
    /\ \E w \in {word_write(wm.memory, wm.cur, idx, val)} :
          wm' = [wm EXCEPT !.memory = w.memory, !.cur = w.ret,
                           !.writes = Append(@, <<idx, val>>)]
    /\ IdleMem

Mem_word_read(idx) ==
    /\ wm' = [wm EXCEPT !.read = Some([idx |-> idx, at |-> wm.cur,
                                       ret |-> word_read(wm.memory, wm.cur, idx)])]
    /\ IdleMem

InitMem ==
    /\ InitEnv
    /\ lock = 0
    /\ threads = <<>>
    /\ issued = <<>>
    /\ cfg = <<>>
    /\ cands = <<>>
    /\ report = <<>>
    /\ evm = <<>>
    /\ se = <<>>
    /\ cli = <<>>
    /\ InitAside
    /\ \E type \in {"Memory", "Storage"} :
          \E f \in {create_new_memory(new_memory, "m", type, None, None)} :
             wm = [memory |-> f.memory, cur |-> f.ret, writes |-> <<>>, read |-> None]

NextMem ==
    \/ \E idx \in Indices : \E val \in Words : Mem_word_write(idx, val)
    \/ \E idx \in Indices : Mem_word_read(idx)

SpecMem == InitMem /\ [][NextMem]_vars

----------------------------------------------------------------------------
(* generate_random_vec and the two values made of its digests *)

MaxDraws == 2

\* digests generate_random_vec may return: any 32 bytes
Digests ==
    { [i \in 1..HashLen |-> 255],
      [i \in 1..HashLen |-> 0],
      [i \in 1..HashLen |-> IF i = 1 THEN 128 ELSE 0],
      [i \in 1..HashLen |-> IF i <= 13 THEN 0 ELSE i],
      [i \in 1..HashLen |-> IF i <= AddrLen THEN 0 ELSE 1],
      [i \in 1..HashLen |-> i] }

IdleRand ==
    UNCHANGED <<counter, memory, coverage, envs, parent, derived, last, run2, lock, threads,
                issued, cfg, cands, report, evm, se, cli, wm, ex, lg, fr, ch>>

Rand_generate_random_address(vec) ==
    /\ Len(rnd.addresses) + Len(rnd.hashes) < MaxDraws
    /\ rnd' = [rnd EXCEPT !.addresses = Append(@, generate_random_address(vec))]
    /\ IdleRand

Rand_generate_random_hash(vec) ==
    /\ Len(rnd.addresses) + Len(rnd.hashes) < MaxDraws
    /\ rnd' = [rnd EXCEPT !.hashes = Append(@, generate_random_hash(vec))]
    /\ IdleRand

InitRand ==
    /\ InitEnv
    /\ lock = 0
    /\ threads = <<>>
    /\ issued = <<>>
    /\ cfg = <<>>
    /\ cands = <<>>
    /\ report = <<>>
    /\ evm = <<>>
    /\ se = <<>>
    /\ cli = <<>>
    /\ wm = <<>>
    /\ ex = <<>>
    /\ lg = <<>>
    /\ fr = <<>>
    /\ ch = <<>>
    /\ rnd = [addresses |-> <<>>, hashes |-> <<>>]

NextRand ==
    \/ \E vec \in Digests : Rand_generate_random_address(vec)
    \/ \E vec \in Digests : Rand_generate_random_hash(vec)

SpecRand == InitRand /\ [][NextRand]_vars

----------------------------------------------------------------------------
(* One Env, its accounts and the transactions between them.  lg.start is   *)
(* the Env as it was when its last account was created, before the         *)
(* transactions that followed.                                             *)

IdleLedger == UNCHANGED <<run2, lock, threads, issued, cfg, cands, report, evm, se, cli, wm, ex, rnd, fr, ch>>

Ledger_new_attacker_account ==
    /\ Step_new_attacker_account(1)
    /\ lg' = [start |-> envs'[1]]
    /\ IdleLedger

Ledger_new_hijack_account ==
    /\ Step_new_hijack_account(1)
    /\ lg' = [start |-> envs'[1]]
    /\ IdleLedger

Ledger_new_account(in) ==
    /\ Step_new_account(1, in)
    /\ lg' = [start |-> envs'[1]]
    /\ IdleLedger

Ledger_new_attacker_tx(attacker, victim) ==
    /\ Step_new_attacker_tx(1, attacker, victim)
    /\ UNCHANGED lg
    /\ IdleLedger

Ledger_new_output_tx(caller, addr, in) ==
    /\ Step_new_output_tx(1, caller, addr, in)
    /\ UNCHANGED lg
    /\ IdleLedger

InitLedger ==
    /\ InitEnv
    /\ lock = 0
    /\ threads = <<>>
    /\ issued = <<>>
    /\ cfg = <<>>
    /\ cands = <<>>
    /\ report = <<>>
    /\ evm = <<>>
    /\ se = <<>>
    /\ cli = <<>>
    /\ wm = <<>>
    /\ ex = <<>>
    /\ rnd = <<>>
    /\ fr = <<>>
    /\ ch = <<>>
    /\ lg = [start |-> envs[1]]

NextLedger ==
    \/ Ledger_new_attacker_account
    \/ Ledger_new_hijack_account
    \/ \E in \in AccountInputs : Ledger_new_account(in)
    \/ \E a, v \in Accounts(1) : Ledger_new_attacker_tx(a, v)
    \/ \E c, t \in Accounts(1) : \E in \in OutputInputs : Ledger_new_output_tx(c, t, in)

SpecLedger == InitLedger /\ [][NextLedger]_vars

----------------------------------------------------------------------------
(* The interpreter's JUMPI and the path explorer's worklist.  A path state *)
(* is suspended in the worklist; a step takes one out and runs it up to    *)
(* its next fork, to the end of its transaction, or until a bound drops it.*)

MaxLoopBound == 2
MaxCallBound == 2
MaxDepthBound == 7

\* the code under analysis: a forward branch, a loop closed by a branch, a
\* loop closed by a jump, a branch on a constant, and the end
Program ==
    <<[op |-> "JUMPI", dest |-> 4, cond |-> "symbolic"],
      [op |-> "JUMPI", dest |-> 1, cond |-> "symbolic"],
      [op |-> "JUMP", dest |-> 3, cond |-> "none"],
      [op |-> "JUMPI", dest |-> 5, cond |-> "nonzero"],
      [op |-> "STOP", dest |-> 0, cond |-> "none"]>>

\* the literal cond != 0 or cond = 0 for the condition read at pc in
\* transaction tx
Literal(pc, tx, sign) == <<pc, tx, sign>>

Consistent(constraints) ==
    \A i, j \in DOMAIN constraints :
        ~(/\ constraints[i][1] = constraints[j][1]
          /\ constraints[i][2] = constraints[j][2]
          /\ constraints[i][3] # constraints[j][3])

\* what check_sat may answer on a path condition
CheckSat(constraints) ==
    {IF Consistent(constraints) THEN "Sat" ELSE "Unsat", "Unknown"}

\* the first state of transaction tx on top of the path condition of a leaf
TxStart(tx, constraints) ==
    [pc |-> 1, tx |-> tx, constraints |-> constraints,
     loops |-> [p \in DOMAIN Program |-> 0], depth |-> 0, parent |-> None]

\* one opcode that does not fork: the state after it
Straight(s) ==
    LET ins == Program[s.pc]
    IN [s EXCEPT !.pc = IF ins.op = "JUMP" \/ ins.cond = "nonzero" THEN ins.dest ELSE s.pc + 1,
                 !.loops[s.pc] = IF ins.op = "JUMPI" /\ ins.cond = "nonzero" /\ ins.dest <= s.pc
                                 THEN @ + 1 ELSE @,
                 !.depth = @ + 1]

Forks(s) == Program[s.pc].op = "JUMPI" /\ Program[s.pc].cond = "symbolic"

Halts(s) == Program[s.pc].op = "STOP"

\* the state run to its next fork or to its end; max_depth opcodes at most
RECURSIVE Settle(_, _)
Settle(s, max_depth) ==
    IF Forks(s) \/ Halts(s) \/ s.depth >= max_depth THEN s
    ELSE Settle(Straight(s), max_depth)

\* the successor of a JUMPI that jumps: pc = dest, cond != 0 added, and the
\* loop counter of the JUMPI incremented on a back-edge
Taken(s) ==
    [pc |-> Program[s.pc].dest, tx |-> s.tx,
     constraints |-> Append(s.constraints, Literal(s.pc, s.tx, "nonzero")),
     loops |-> [s.loops EXCEPT ![s.pc] = IF Program[s.pc].dest <= s.pc THEN @ + 1 ELSE @],
     depth |-> s.depth + 1, parent |-> Some(s)]

\* the successor that falls through: pc = next, cond = 0 added
Fallen(s) ==
    [pc |-> s.pc + 1, tx |-> s.tx,
     constraints |-> Append(s.constraints, Literal(s.pc, s.tx, "zero")),
     loops |-> s.loops, depth |-> s.depth + 1, parent |-> Some(s)]

\* a successor is pushed whatever the solver answered, short of Unsat
PushedUnlessUnsat(verdict) == verdict # "Unsat"

\* pre-pruning: a successor is pushed only if its path condition was found
\* satisfiable
Pushed(verdict) == verdict = "Sat"

\* the unrolling cap
LoopExceeded(s, loop_bound) == \E p \in DOMAIN s.loops : s.loops[p] > loop_bound

\* the explorer goes on to transaction tx_count + 1 although the bound is met
MayStartTx_inclusive(call_bound, tx_count) == call_bound >= tx_count

\* another attacker transaction is made only if call_bound > tx_count
MayStartTx(call_bound, tx_count) == call_bound > tx_count

IdleExplore == UNCHANGED <<counter, memory, coverage, envs, parent, derived, last, run2, lock, threads, issued, cfg, cands, report, evm, se, cli, wm, rnd, lg, fr, ch>>

\* the worklist is a stack: the state pushed last is taken first
Top == ex.worklist[Len(ex.worklist)]

Rest == SubSeq(ex.worklist, 1, Len(ex.worklist) - 1)

\* the successors that survive the loop bound and the solver's check, the
\* one that jumps below the one that falls through, which is explored first
Survivors(s, vt, vf) ==
    (IF Pushed(vt) /\ ~LoopExceeded(Taken(s), ex.cfg.loop_bound) THEN <<Taken(s)>> ELSE <<>>)
        \o (IF Pushed(vf) THEN <<Fallen(s)>> ELSE <<>>)

\* the state on top of the worklist is run; at a fork its successors are
\* checked and pushed, at the end of the transaction it becomes a leaf
Explorer_step ==
    /\ ~ex.done
    /\ ex.worklist # <<>>
    /\ \E s \in {Settle(Top, ex.cfg.max_depth)} :
          \/ /\ Forks(s) /\ s.depth < ex.cfg.max_depth
             /\ \E vt \in CheckSat(Taken(s).constraints) :
                \E vf \in CheckSat(Fallen(s).constraints) :
                   ex' = [ex EXCEPT
                             !.worklist = Rest \o Survivors(s, vt, vf),
                             !.pruned = @ \cup ({"Unsat", "Unknown"} \cap {vt, vf}),
                             !.dropped = @ \cup (IF LoopExceeded(Taken(s), ex.cfg.loop_bound)
                                                 THEN {"loop_bound"} ELSE {})]
          \/ /\ Halts(s) /\ s.depth < ex.cfg.max_depth
             /\ ex' = [ex EXCEPT !.worklist = Rest, !.leaves = @ \cup {s}]
          \/ /\ s.depth >= ex.cfg.max_depth
             /\ ex' = [ex EXCEPT !.worklist = Rest, !.dropped = @ \cup {"max_depth"}]
    /\ IdleExplore

\* the worklist is empty: the attacker transaction is complete on every
\* path.  With a leaf where the attacker wins, or none left, or the call
\* bound met, the exploration ends; otherwise each leaf goes on with a new
\* attacker transaction.
Explorer_next_tx ==
    /\ ~ex.done
    /\ ex.worklist = <<>>
    /\ \E win \in BOOLEAN :
          IF (win /\ ex.leaves # {}) \/ ex.leaves = {}
                 \/ ~MayStartTx(ex.cfg.call_bound, ex.tx_count)
          THEN ex' = [ex EXCEPT !.done = TRUE,
                                !.found = win /\ ex.leaves # {}]
          ELSE \E order \in {o \in [1..Cardinality(ex.leaves) -> ex.leaves] :
                                 \A i, j \in DOMAIN o : o[i] = o[j] => i = j} :
                  ex' = [ex EXCEPT
                            !.worklist = [i \in DOMAIN order |->
                                             TxStart(ex.tx_count + 1, order[i].constraints)],
                            !.leaves = {},
                            !.tx_count = @ + 1]
    /\ IdleExplore

InitExplore ==
    /\ InitEnv
    /\ lock = 0
    /\ threads = <<>>
    /\ issued = <<>>
    /\ cfg = <<>>
    /\ cands = <<>>
    /\ report = <<>>
    /\ evm = <<>>
    /\ se = <<>>
    /\ cli = <<>>
    /\ wm = <<>>
    /\ rnd = <<>>
    /\ lg = <<>>
    /\ fr = <<>>
    /\ ch = <<>>
    /\ \E lb \in 1..MaxLoopBound : \E cb \in 1..MaxCallBound : \E md \in 3..MaxDepthBound :
          ex = [cfg |-> [loop_bound |-> lb, call_bound |-> cb, max_depth |-> md],
                worklist |-> <<TxStart(1, <<>>)>>, leaves |-> {}, tx_count |-> 1,
                done |-> FALSE, found |-> FALSE, pruned |-> {}, dropped |-> {}]

NextExplore ==
    \/ Explorer_step
    \/ Explorer_next_tx

SpecExplore == InitExplore /\ [][NextExplore]_vars

\* the explorer is a loop of the analysis thread: while it has a step to
\* take it takes one
SpecExploreFair == SpecExplore /\ WF_vars(NextExplore)

----------------------------------------------------------------------------
(* CustomContractRunner::run_tests and CustomFunctionRunner::run: the      *)
(* matching functions of a contract, each run by its own function runner.  *)

MaxFuncs == 2

\* function names, letter by letter
FunctionNames ==
    { <<"p", "r", "o", "v", "e", "_", "x">>,
      <<"t", "e", "s", "t", "_", "x">>,
      <<"t", "e", "s", "t", "P", "r", "o", "v", "e">>,
      <<"p", "r", "o", "v">> }

\* str::starts_with
starts_with(name, prefix) ==
    Len(name) >= Len(prefix) /\ SubSeq(name, 1, Len(prefix)) = prefix

\* a Function of the ABI: its name and what is_any_test() answers for it
Functions == [name : FunctionNames, is_any_test : BOOLEAN]

\* the ABIs: functions with pairwise different names
Contracts ==
    {c \in SUBSET Functions :
        /\ Cardinality(c) <= MaxFuncs
        /\ \A f, h \in c : f.name = h.name => f = h}

\* the filters, as the names they match
Filters == {FunctionNames, {n \in FunctionNames : n[1] = "p"}}

\* what apply_function_inline_config returns, and how the beforeTestSetup
\* calls of prepare_test go: none configured, or one that succeeds, reverts
\* or returns an error
InlineConfigs == {"Ok", "Err: invalid inline config"}
BeforeTests == {"none", "Ok", "reverted", "Err"}

\* TestResult::new(setup), single_fail(reason), single_skip(reason)
TestResult_new == [status |-> "new", reason |-> None, traces |-> <<>>]
single_fail(result, reason) == [result EXCEPT !.status = "Failure", !.reason = reason]
single_skip(result, reason) == [result EXCEPT !.status = "Skipped", !.reason = reason]

is_matching_test(func, filter) == func.is_any_test /\ func.name \in filter

\* a test that is symbolic whatever its name
is_symbolic_test_any(func) == func.is_any_test

is_symbolic_test(func) ==
    func.is_any_test /\ starts_with(func.name, <<"p", "r", "o", "v", "e">>)

\* prepare_test(func): whether it is Ok, the result, and the calls made
prepare_test(result, before) ==
    CASE before = "none" -> [ok |-> TRUE, result |-> result, calls |-> <<>>]
      [] before = "Ok" ->
             [ok |-> TRUE, result |-> [result EXCEPT !.traces = Append(@, "beforeTest")],
              calls |-> <<"transact_raw">>]
      [] before = "reverted" ->
             [ok |-> FALSE,
              result |-> single_fail([result EXCEPT !.traces = Append(@, "beforeTest")], None),
              calls |-> <<"transact_raw">>]
      [] before = "Err" ->
             [ok |-> FALSE, result |-> single_fail(result, None),
              calls |-> <<"transact_raw">>]

\* run_symbolic_exec_test(func): the symbolic execution itself is still to be
\* written; what is returned is a new TestResult
run_symbolic_exec_test(result, before) ==
    LET Prepared(p) ==
            [result |-> IF p.ok THEN TestResult_new ELSE p.result, calls |-> p.calls,
             ran |-> "run_symbolic_exec_test"]
    IN Prepared(prepare_test(result, before))

\* CustomFunctionRunner::run(func), on the runner CustomFunctionRunner::new made
FunctionRunner_run(func, inline, before) ==
    IF inline # "Ok"
    THEN [result |-> single_fail(TestResult_new, Some(inline)), calls |-> <<>>, ran |-> "none"]
    ELSE IF is_symbolic_test(func)
    THEN run_symbolic_exec_test(TestResult_new, before)
    ELSE [result |-> single_skip(TestResult_new, Some("No symbolic execution test found")),
          calls |-> <<>>, ran |-> "none"]

IdleRunner == UNCHANGED <<counter, memory, coverage, envs, parent, derived, last, run2, lock, threads, issued, cfg, cands, report, evm, se, cli, wm, ex, rnd, lg, ch>>

\* one iteration of the par_iter of run_tests: a matching function that has
\* not been run is run, and its result kept under its name
Run_function(func, inline, before) ==
    /\ func \in fr.functions
    /\ is_matching_test(func, fr.filter)
    /\ func.name \notin DOMAIN fr.test_results
    /\ \E r \in {FunctionRunner_run(func, inline, before)} :
          fr' = [fr EXCEPT !.test_results = MapInsert(@, func.name,
                                                       [func |-> func, inline |-> inline,
                                                        result |-> r.result, ran |-> r.ran,
                                                        calls |-> r.calls])]
    /\ IdleRunner

InitRunner ==
    /\ InitEnv
    /\ lock = 0
    /\ threads = <<>>
    /\ issued = <<>>
    /\ cfg = <<>>
    /\ cands = <<>>
    /\ report = <<>>
    /\ evm = <<>>
    /\ se = <<>>
    /\ cli = <<>>
    /\ wm = <<>>
    /\ ex = <<>>
    /\ rnd = <<>>
    /\ lg = <<>>
    /\ ch = <<>>
    /\ \E c \in Contracts : \E filter \in Filters :
          fr = [functions |-> c, filter |-> filter, test_results |-> EmptyMap]

NextRunner ==
    \E func \in Functions : \E inline \in InlineConfigs : \E before \in BeforeTests :
        Run_function(func, inline, before)

SpecRunner == InitRunner /\ [][NextRunner]_vars

----------------------------------------------------------------------------
(* CustomTestArgs::run_tests: the runner task sends one (contract,         *)
(* SuiteResult) pair per contract into a channel, from parallel workers;   *)
(* the caller receives them in a loop and inserts them into the outcome.   *)

MaxContracts == 2

\* the identifiers of the matching contracts
ContractIds == {"src/A.t.sol:A", "src/B.t.sol:B", "src/C.t.sol:C"}

\* the receiver is gone: run_tests returned early or left its loop
RxDropped == ch.rx \in {"done", "failed"}

\* the loop is over as soon as the sender is dropped
Disconnected_early == ch.runner # "running"

\* recv() fails, and the loop ends, once the sender is dropped and no pair
\* is left in the channel
Disconnected == ch.runner # "running" /\ ch.queue = <<>>

IdleChannel == UNCHANGED <<counter, memory, coverage, envs, parent, derived, last, run2, lock, threads, issued, cfg, cands, report, evm, se, cli, wm, ex, rnd, lg, fr>>

\* a worker of par_iter takes a contract and runs its suite, unless
\* try_for_each has seen an error
Worker_run_test_suite(c, failed) ==
    /\ ch.runner = "running"
    /\ ~ch.error
    /\ c \in ch.todo
    /\ ch' = [ch EXCEPT !.todo = @ \ {c},
                        !.running = @ \cup {[contract |-> c, failed |-> failed]}]
    /\ IdleChannel

\* tx.send((id.identifier(), result)): an error once the receiver is dropped
Worker_send(r) ==
    /\ ch.runner = "running"
    /\ r \in ch.running
    /\ IF RxDropped
       THEN ch' = [ch EXCEPT !.running = @ \ {r}, !.error = TRUE]
       ELSE ch' = [ch EXCEPT !.running = @ \ {r},
                             !.queue = Append(@, r),
                             !.sent = Append(@, r.contract)]
    /\ IdleChannel

\* try_for_each returns, test returns and drops tx
Runner_return ==
    /\ ch.runner = "running"
    /\ ch.running = {}
    /\ ch.todo = {} \/ ch.error
    /\ ch' = [ch EXCEPT !.runner = IF ch.error THEN "Err" ELSE "Ok"]
    /\ IdleChannel

\* the trace identifier and the decoder are built before the loop; an error
\* returns from run_tests
Rx_setup(ok) ==
    /\ ch.rx = "setup"
    /\ ch' = [ch EXCEPT !.rx = IF ok THEN "loop" ELSE "failed"]
    /\ IdleChannel

\* one iteration of `for (contract_name, suite_result) in rx`: the pair is
\* printed unless silent, an error of the shell returning from run_tests,
\* then inserted; with fail_fast a failed test leaves the loop
Rx_receive(printed) ==
    /\ ch.rx = "loop"
    /\ ch.queue # <<>>
    /\ ch.silent => printed
    /\ \E r \in {Head(ch.queue)} :
          IF ~printed
          THEN ch' = [ch EXCEPT !.queue = Tail(@), !.rx = "failed"]
          ELSE ch' = [ch EXCEPT
                         !.queue = Tail(@),
                         !.results = MapInsert(@, r.contract, r),
                         !.inserts = Append(@, r.contract),
                         !.any_test_failed = @ \/ r.failed,
                         !.rx = IF ch.fail_fast /\ (ch.any_test_failed \/ r.failed)
                                THEN "done" ELSE @]
    /\ IdleChannel

\* the iterator ends: nothing is left and the sender is dropped
Rx_end ==
    /\ ch.rx = "loop"
    /\ Disconnected
    /\ ch' = [ch EXCEPT !.rx = "done"]
    /\ IdleChannel

InitChannel ==
    /\ InitEnv
    /\ lock = 0
    /\ threads = <<>>
    /\ issued = <<>>
    /\ cfg = <<>>
    /\ cands = <<>>
    /\ report = <<>>
    /\ evm = <<>>
    /\ se = <<>>
    /\ cli = <<>>
    /\ wm = <<>>
    /\ ex = <<>>
    /\ rnd = <<>>
    /\ lg = <<>>
    /\ fr = <<>>
    /\ \E cs \in {x \in SUBSET ContractIds : Cardinality(x) <= MaxContracts} :
       \E silent \in BOOLEAN : \E fail_fast \in BOOLEAN :
          ch = [todo |-> cs, running |-> {}, queue |-> <<>>, sent |-> <<>>,
                error |-> FALSE, runner |-> "running", rx |-> "setup",
                results |-> EmptyMap, inserts |-> <<>>, any_test_failed |-> FALSE,
                silent |-> silent, fail_fast |-> fail_fast]

NextRunnerTask ==
    \/ \E c \in ContractIds : \E failed \in BOOLEAN : Worker_run_test_suite(c, failed)
    \/ \E r \in ch.running : Worker_send(r)
    \/ Runner_return

NextReceiver ==
    \/ \E ok \in BOOLEAN : Rx_setup(ok)
    \/ \E printed \in BOOLEAN : Rx_receive(printed)
    \/ Rx_end

NextChannel == NextRunnerTask \/ NextReceiver

SpecChannel == InitChannel /\ [][NextChannel]_vars

\* the blocking task and the caller are both scheduled: each takes a step
\* while it has one to take
SpecChannelFair == SpecChannel /\ WF_vars(NextRunnerTask) /\ WF_vars(NextReceiver)

----------------------------------------------------------------------------
(* Properties of the Env operations, stated over the last operation: its   *)
(* Env before the call (last.pre), its arguments and what it returned.     *)

TxOps == {"new_attacker_tx", "new_output_tx"}

AccountOps ==
    {"new_attacker_account", "new_hijack_account", "new_victim_account", "new_account"}

Post == envs[last.e]

\* C1: a transaction from `from` to a different account `to` debits the
\* sender by callvalue, credits the receiver by callvalue, appends
\* callvalue <= old sender balance to the sender's constraints, is stored
\* under its TxId, and leaves every other account's balance as it was.
C1_BalanceTransfer ==
    (last.op \in TxOps /\ last.args[1] # last.args[2]) =>
        LET from == last.args[1]
            to == last.args[2]
            pre == last.pre
            tx == Post.transactions[last.ret]
        IN /\ last.ret \in DOMAIN Post.transactions
           /\ tx.id = last.ret
           /\ DOMAIN Post.transactions = DOMAIN pre.transactions \cup {last.ret}
           /\ \A id \in DOMAIN pre.transactions :
                  Post.transactions[id] = pre.transactions[id]
           /\ Post.accounts[from].balance = sub(pre.accounts[from].balance, tx.callvalue)
           /\ Post.accounts[to].balance = add(pre.accounts[to].balance, tx.callvalue)
           /\ Post.accounts[from].constraints =
                  Append(pre.accounts[from].constraints,
                         le(tx.callvalue, pre.accounts[from].balance))
           /\ Post.accounts[to].constraints = pre.accounts[to].constraints
           /\ DOMAIN Post.accounts = DOMAIN pre.accounts
           /\ \A a \in DOMAIN pre.accounts \ {from, to} :
                  Post.accounts[a] = pre.accounts[a]

\* a transfer between two accounts of an Env that holds a third one, with
\* constant balances (folded arithmetic) as well as symbolic ones
C1_Witness ==
    /\ last.op \in TxOps
    /\ last.args[1] # last.args[2]
    /\ Cardinality(DOMAIN Post.accounts) >= 3
    /\ Post.accounts[last.args[1]].constraints # <<>>

\* the block-number (or timestamp) variables of an Env's blocks
FieldVars(env, f) == {env.blocks[i][f] : i \in DOMAIN env.blocks}

MaxNum == 3

\* the assignments of values to those variables that satisfy every ordering
\* constraint of the Env between two of them
Satisfying(env, f) ==
    LET pairs == {c \in Range(env.constraints) :
                      c[1] = "lt" /\ c[2] \in FieldVars(env, f) /\ c[3] \in FieldVars(env, f)}
    IN {asg \in [FieldVars(env, f) -> 0..MaxNum] : \A c \in pairs : asg[c[2]] < asg[c[3]]}

Increasing(env, f) ==
    \A asg \in Satisfying(env, f) :
        \A i, j \in DOMAIN env.blocks : i < j => asg[env.blocks[i][f]] < asg[env.blocks[j][f]]

\* C4: from_old_env appends exactly one block and adds old.number < new.number
\* and old.timestamp < new.timestamp; an Env derived k times has k+1 blocks,
\* and every assignment satisfying its constraints orders the numbers and the
\* timestamps of its blocks strictly increasingly.
C4_BlocksIncrease ==
    /\ \A e \in Envs :
          /\ Len(envs[e].blocks) = derived[e] + 1
          /\ \A i \in 1..(Len(envs[e].blocks) - 1) :
                /\ lt(envs[e].blocks[i].number, envs[e].blocks[i + 1].number)
                       \in Range(envs[e].constraints)
                /\ lt(envs[e].blocks[i].timestamp, envs[e].blocks[i + 1].timestamp)
                       \in Range(envs[e].constraints)
    /\ last.op = "from_old_env" =>
          /\ Len(envs[last.ret].blocks) = Len(last.pre.blocks) + 1
          /\ SubSeq(envs[last.ret].blocks, 1, Len(last.pre.blocks)) = last.pre.blocks
          /\ lt(latest_block(last.pre).number, latest_block(envs[last.ret]).number)
                 \in Range(envs[last.ret].constraints)
          /\ lt(latest_block(last.pre).timestamp, latest_block(envs[last.ret]).timestamp)
                 \in Range(envs[last.ret].constraints)
          /\ Increasing(envs[last.ret], "number")
          /\ Increasing(envs[last.ret], "timestamp")

\* an Env derived twice: three blocks, and an assignment that satisfies the
\* ordering constraints exists
C4_Witness ==
    /\ last.op = "from_old_env"
    /\ derived[last.ret] = 2
    /\ Satisfying(envs[last.ret], "number") # {}

IsPrefix(s, t) == Len(s) <= Len(t) /\ SubSeq(t, 1, Len(s)) = s

C5_Step ==
    /\ last'.op = "from_old_env" =>
          LET old == envs[last'.e]
              new == envs'[last'.ret]
          IN /\ Len(envs') = Len(envs) + 1
             /\ new.accounts = old.accounts
             /\ new.addresses = old.addresses
             /\ new.transactions = old.transactions
             /\ new.acc_counter = old.acc_counter
             /\ new.tx_counter = old.tx_counter
             /\ new.loaded_accounts = old.loaded_accounts
             /\ IsPrefix(old.blocks, new.blocks)
             /\ IsPrefix(old.constraints, new.constraints)
    /\ \A e \in Envs :
          envs'[e] # envs[e] => (last'.e = e /\ last'.op \in TxOps \cup AccountOps)

\* C5: from_old_env(old) leaves old unchanged and returns an Env equal to old
\* in accounts, address map, transactions, id counters, loaded accounts and
\* earlier blocks, with old's constraints as a prefix of its own; an operation
\* on one Env changes no other Env.
C5_Frame == [][C5_Step]_vars

\* a transaction was added to an Env from which another was derived, or to a
\* derived Env, and the two now differ
C5_Witness ==
    /\ last.op \in TxOps
    /\ \E e \in Envs :
          /\ e # last.e
          /\ parent[e] = last.e \/ parent[last.e] = e
          /\ envs[e].transactions # Post.transactions
          /\ envs[e].transactions = last.pre.transactions
          /\ envs[e].accounts = last.pre.accounts

\* C7: for every transaction recorded in an Env, get_constraints bounds the
\* transaction's gas by MAX_GAS.
C7_GasBounded ==
    \A e \in Envs : \A id \in DOMAIN envs[e].transactions :
        lt(envs[e].transactions[id].gas, const256("MAX_GAS"))
            \in Range(get_constraints(envs[e]))

ConstrainedFields ==
    {"gasprice", "gas_limit", "difficulty", "number", "timestamp", "coinbase",
     "blockhash", "chainid"}

\* a range or equality constraint on term x
Constrains(c, x) == c[1] \in {"lt", "le", "eql"} /\ (c[2] = x \/ c[3] = x)

\* C8: for every block of an Env, the Env's constraints hold a range or
\* equality constraint on the current variable of each of the fields gasprice,
\* gas_limit, difficulty, number, timestamp, coinbase, blockhash and chainid.
C8_FieldsConstrained ==
    \A e \in Envs : \A i \in DOMAIN envs[e].blocks : \A f \in ConstrainedFields :
        \E c \in Range(envs[e].constraints) : Constrains(c, envs[e].blocks[i][f])

\* C9: no account is removed and no account id is reused: the ids of an Env
\* are exactly 1..acc_counter, AccountId(0) is never assigned, an account
\* operation issues acc_counter + 1 and keeps every earlier account, and
\* transactions and from_old_env keep the set of ids.
C9_AccountIds ==
    /\ \A e \in Envs :
          /\ DOMAIN envs[e].accounts = 1..envs[e].acc_counter
          /\ 0 \notin DOMAIN envs[e].accounts
          /\ \A a \in DOMAIN envs[e].accounts : envs[e].accounts[a].id = a
    /\ last.op \in AccountOps =>
          /\ last.ret = last.pre.acc_counter + 1
          /\ last.ret \notin DOMAIN last.pre.accounts
          /\ DOMAIN Post.accounts = DOMAIN last.pre.accounts \cup {last.ret}
          /\ \A a \in DOMAIN last.pre.accounts : Post.accounts[a] = last.pre.accounts[a]
    /\ last.op \in TxOps => DOMAIN Post.accounts = DOMAIN last.pre.accounts
    /\ last.op = "from_old_env" =>
          /\ DOMAIN envs[last.ret].accounts = DOMAIN last.pre.accounts
          /\ DOMAIN Post.accounts = DOMAIN last.pre.accounts

\* a third account is created in an Env derived from one that had two
C9_Witness ==
    /\ last.op \in AccountOps
    /\ last.ret = 3
    /\ derived[last.e] = 1
    /\ Cardinality(DOMAIN envs[parent[last.e]].accounts) = 2

\* the transactions of all Envs other than the one the last operation stored
OtherTxs ==
    UNION {{envs[e].transactions[id] : id \in DOMAIN envs[e].transactions} : e \in Envs}
        \ {Post.transactions[last.ret]}

\* C10: a transaction made by new_attacker_tx(attacker, victim) has caller and
\* origin equal to the attacker's address and target equal to the victim's
\* address; its gas, callvalue, calldata size and calldata are fresh symbols,
\* bounded by MAX_GAS, MAX_CALLVAL and MAX_CALLDATA_SIZE; its TxId is greater
\* than every TxId issued before in that Env.
C10_AttackerTx ==
    last.op = "new_attacker_tx" =>
        LET tx == Post.transactions[last.ret]
            pre == last.pre
        IN /\ tx.caller = pre.accounts[last.args[1]].addr
           /\ tx.origin = pre.accounts[last.args[1]].addr
           /\ tx.addr = pre.accounts[last.args[2]].addr
           /\ {lt(tx.gas, const256("MAX_GAS")),
               lt(tx.callvalue, const256("MAX_CALLVAL")),
               lt(tx.calldata_size, const256("MAX_CALLDATA_SIZE"))}
                  \subseteq Range(get_constraints(Post))
           /\ \A x \in {tx.gas, tx.callvalue, tx.calldata_size} : x[1] = "var"
           /\ Cardinality({tx.gas, tx.callvalue, tx.calldata_size}) = 3
           /\ \A o \in OtherTxs :
                  /\ {tx.gas, tx.callvalue, tx.calldata_size}
                         \cap {o.gas, o.callvalue, o.calldata_size, o.caller, o.origin,
                               o.addr} = {}
                  /\ o.data # tx.data
           /\ tx.data = Len(memory)
           /\ memory[tx.data].type = "Data"
           /\ memory[tx.data].size = Some(tx.calldata_size)
           /\ last.ret = pre.tx_counter + 1
           /\ Post.tx_counter = last.ret
           /\ \A id \in DOMAIN pre.transactions : id < last.ret

\* a second attacker transaction, from an attacker to a different victim, in
\* an Env that already holds a transaction
C10_Witness ==
    /\ last.op = "new_attacker_tx"
    /\ last.args[1] # last.args[2]
    /\ last.ret = 2
    /\ 1 \in DOMAIN last.pre.transactions

\* C3: two runs on the same input perform the same operations and end with
\* the same Envs, in particular with the same constraints on the coinbase and
\* the blockhash of every block from_old_env made.
C3_SameResults ==
    /\ Len(run2.envs) = Len(envs)
    /\ \A e \in Envs : run2.envs[e].constraints = envs[e].constraints

\* No name is issued twice, and the k-th name issued for a prefix is prefix_k.
NthOfPrefix(i) ==
    Cardinality({j \in 1..i : issued[j].name = issued[i].name})

\* C6: under any interleaving of concurrent callers fresh_var_name never
\* returns the same string twice: for each prefix p the calls return p_1, p_2,
\* ... without repetition or gap, and names of different prefixes differ.
C6_FreshNames ==
    /\ \A i \in DOMAIN issued : issued[i].ret = Format(issued[i].name, NthOfPrefix(i))
    /\ \A i, j \in DOMAIN issued : i # j => issued[i].ret # issued[j].ret
    /\ Cardinality(InFlight) <= 1
    /\ \A name \in DOMAIN counter.var_counters :
          InFlight = {} =>
              counter.var_counters[name] =
                  Cardinality({j \in DOMAIN issued : issued[j].name = name})

\* both threads were issued names, two of them for the same prefix and one for
\* a prefix that is itself an issued name
C6_Witness ==
    /\ Len(issued) = MaxCalls
    /\ {issued[i].t : i \in DOMAIN issued} = Threads
    /\ \E i, j \in DOMAIN issued : i # j /\ issued[i].name = issued[j].name
    /\ \E i, j \in DOMAIN issued : issued[i].name = issued[j].ret

----------------------------------------------------------------------------
(* Properties of the concrete EVM instances *)

EvmAddrs == {"S", "T", "A", "B", "F", Created}

\* the successful calls of claim() on A among the first k inputs of ev
Claims(ev, k) ==
    {i \in 1..k : ev.inputs[i].input_data = "claim" /\ ev.inputs[i].receiver = "A"
                  /\ ev.results[i]}

\* what the inputs executed so far say slot 0 of A holds after the k-th
OwnerAfter(ev, k) ==
    IF Claims(ev, k) = {} THEN ev.genesis.A.storage[0]
    ELSE ev.inputs[CHOOSE i \in Claims(ev, k) : \A j \in Claims(ev, k) : j <= i].sender

Drains(ev) ==
    {i \in DOMAIN ev.inputs : ev.inputs[i].input_data = "drain" /\ ev.inputs[i].receiver = "A"
                              /\ ev.results[i]}

\* C11: each Evm::execute commits to the instance's db, so execute k+1 runs on
\* the state execute k left: slot 0 of A holds the sender of the latest
\* successful claim, a drain succeeds exactly when the slot written by the
\* transactions before it names its sender, the wallet is empty once drained,
\* and the db is never the genesis state again.
C11_RunsOnCommitted ==
    evm.e.loaded =>
        /\ SLoad(evm.e.db, "A", 0) = OwnerAfter(evm.e, Len(evm.e.inputs))
        /\ \A k \in DOMAIN evm.e.inputs :
              (evm.e.inputs[k].input_data = "drain" /\ evm.e.inputs[k].receiver = "A") =>
                  (evm.e.results[k] <=>
                       /\ evm.e.inputs[k].value = 0
                       /\ OwnerAfter(evm.e, k - 1) = evm.e.inputs[k].sender)
        /\ DbGet(evm.e.db, "B").balance =
               IF Drains(evm.e) = {} THEN evm.e.genesis.B.balance ELSE 0
        /\ evm.e.inputs # <<>> =>
               evm.e.db # update_state_from_genesis(EmptyMap, evm.e.genesis)

\* multiple_transactions_test: S claims A, then drains the wallet through it
C11_Witness ==
    /\ evm.e.genesis = TestGenesis
    /\ Len(evm.e.inputs) = 2
    /\ evm.e.inputs[1].input_data = "claim" /\ evm.e.inputs[1].sender = "S"
    /\ evm.e.inputs[2].input_data = "drain" /\ evm.e.inputs[2].sender = "S"
    /\ evm.e.results = <<TRUE, TRUE>>
    /\ DbGet(evm.e.db, "S").balance = 7
    /\ DbGet(evm.e.db, "S").nonce = 3
    /\ DbGet(evm.e.db, "A").nonce = 1

LastInput(ev) == ev.inputs[Len(ev.inputs)]

NonceKept(ev, a) == DbGet(ev.db, a).nonce = DbGet(ev.pre, a).nonce

SenderBumped(ev) ==
    DbGet(ev.db, LastInput(ev).sender).nonce = DbGet(ev.pre, LastInput(ev).sender).nonce + 1

Creators(ev) ==
    IF /\ LastInput(ev).input_data = "deploy" /\ ev.results[Len(ev.inputs)]
       /\ DbGet(ev.pre, LastInput(ev).receiver).code = "Factory"
    THEN {LastInput(ev).receiver, Created}
    ELSE {}

C13_RevmCommitted ==
    evm.r.inputs # <<>> =>
        /\ evm.r.db = Transact(evm.r.pre, LastInput(evm.r)).db
        /\ DbGet(evm.r.db, LastInput(evm.r).sender).nonce =
               DbGet(evm.r.pre, LastInput(evm.r).sender).nonce + 1

----------------------------------------------------------------------------
(* Properties of from_yaml and of the Genesis of an Env *)

\* the entry of the input the account id was loaded from
EntryOf(id) == se.yaml.state[id - 2]

LoadedIds == 3..(Len(se.yaml.state) + 2)

\* the last value given to each slot of a list of (slot, value) pairs
SlotMap(pairs) ==
    [k \in {pairs[i][1] : i \in DOMAIN pairs} |->
        pairs[CHOOSE i \in DOMAIN pairs :
                 pairs[i][1] = k /\ \A j \in DOMAIN pairs : pairs[j][1] = k => j <= i][2]]

\* what the Genesis holds for account id according to the input and to the
\* initial_storage recorded on the account
GenesisAccount(id) ==
    [balance |-> IF id \in LoadedIds
                 THEN ToString(as_revm_u256(parse_yaml_value(EntryOf(id).balance)))
                 ELSE TenEther,
     code |-> IF id \in LoadedIds THEN EntryOf(id).code ELSE None,
     nonce |-> 0,
     storage |-> IF IsSome(se.env.accounts[id].initial_storage)
                 THEN SlotMap(Unwrap(se.env.accounts[id].initial_storage))
                 ELSE EmptyMap]

\* C14: the Genesis of the Env gives every account its initial balance (10
\* ether when none was recorded), its initial storage, its code and nonce 0,
\* and it is the Genesis the Env had when it was loaded, whatever
\* new_attacker_tx, new_output_tx, from_old_env and storage writes were
\* applied since.
C14_GenesisUnchanged ==
    se.loaded =>
        /\ Into_Genesis(se.env) = se.genesis
        /\ \A a \in DOMAIN Into_Genesis(se.env) :
              Into_Genesis(se.env)[a] =
                  {GenesisAccount(id) :
                      id \in {i \in DOMAIN se.env.accounts :
                                 GenesisAddress(se.env.accounts[i].addr) = a}}
        /\ \A id \in DOMAIN se.env.accounts :
              GenesisAccount(id) \in Into_Genesis(se.env)[GenesisAddress(se.env.accounts[id].addr)]

\* the victim was paid by the attacker and its storage was written after
\* the load
C14_Witness ==
    /\ se.loaded /\ se.n = 2
    /\ se.to \in DOMAIN se.env.accounts
    /\ IsSome(se.env.accounts[se.to].initial_storage)
    /\ se.env.accounts[se.to].balance[1] = "add"
    /\ se.memory[se.env.accounts[se.to].storage].op = <<"Write256", var("stack_slot"), var("stack_word")>>
    /\ se.env.transactions # EmptyMap

\* the entries of the input whose address is the victim address
VictimEntries ==
    {i \in DOMAIN se.yaml.state : const_vec(se.yaml.state[i].addr) = const_vec(se.yaml.victim)}

\* C15: from_yaml on n state entries builds n+2 accounts: the attacker with
\* id 1, returned as `from`, the hijack account with id 2 and one account per
\* entry with ids in iteration order; loaded_accounts lists those n ids, and
\* `to` is the id of the entry whose address is the victim address.
C15_FromYaml ==
    (se.loaded /\ se.op = "from_yaml") =>
        /\ DOMAIN se.env.accounts = 1..(Len(se.yaml.state) + 2)
        /\ se.from = 1
        /\ se.env.accounts[1].addr = const256("ORIGIN")
        /\ IsSome(se.env.accounts[1].initial_attacker_balance)
        /\ se.env.accounts[2].addr = const256("HIJACK_ADDR")
        /\ \A id \in DOMAIN se.env.accounts : se.env.accounts[id].id = id
        /\ \A id \in LoadedIds : se.env.accounts[id].addr = const_vec(EntryOf(id).addr)
        /\ (IF IsSome(se.env.loaded_accounts) THEN Unwrap(se.env.loaded_accounts) ELSE <<>>)
               = [i \in DOMAIN se.yaml.state |-> i + 2]
        /\ \A i \in VictimEntries : VictimEntries = {i} => se.to = i + 2

C15_Witness ==
    /\ se.loaded /\ se.op = "from_yaml"
    /\ Len(se.yaml.state) = 2
    /\ VictimEntries = {2}
    /\ se.to = 4
    /\ Cardinality(DOMAIN se.env.accounts) = 4

\* the word writes on the chain below mval, oldest first
RECURSIVE Writes(_, _)
Writes(m, mval) ==
    IF IsSome(m[mval].parent)
    THEN Append(Writes(m, Unwrap(m[mval].parent)), <<m[mval].op[2], m[mval].op[3]>>)
    ELSE <<>>

RECURSIVE Base(_, _)
Base(m, mval) == IF IsSome(m[mval].parent) THEN Base(m, Unwrap(m[mval].parent)) ELSE mval

StoragePairs(id) == IF IsSome(EntryOf(id).storage) THEN Unwrap(EntryOf(id).storage) ELSE <<>>

\* C16: after the load the storage of an account loaded with k storage entries
\* is the head of a chain of exactly those k word writes, in input order, on
\* the account's fresh storage base, each node's parent being the node before
\* it, and initial_storage records the same k pairs.
C16_StorageChain ==
    (se.loaded /\ se.op = "from_yaml") =>
        \A id \in LoadedIds :
           /\ Writes(se.memory, se.env.accounts[id].storage) =
                 [i \in DOMAIN StoragePairs(id) |->
                     <<parse_yaml_value(StoragePairs(id)[i][1]),
                       parse_yaml_value(StoragePairs(id)[i][2])>>]
           /\ se.memory[Base(se.memory, se.env.accounts[id].storage)].op = <<"Fresh">>
           /\ se.memory[Base(se.memory, se.env.accounts[id].storage)].account = Some(id)
           /\ (IF IsSome(se.env.accounts[id].initial_storage)
               THEN Unwrap(se.env.accounts[id].initial_storage) ELSE <<>>)
                 = InitialStorage(StoragePairs(id))

\* C17: the storage map and the owner slot of an entry are loaded whether or
\* not the entry has code.
C17_OptionalFields ==
    (se.loaded /\ se.op = "from_yaml") =>
        \A id \in LoadedIds :
           /\ IsSome(EntryOf(id).storage) =>
                 /\ se.env.accounts[id].initial_storage =
                        Some(InitialStorage(Unwrap(EntryOf(id).storage)))
                 /\ Len(Writes(se.memory, se.env.accounts[id].storage)) =
                        Len(Unwrap(EntryOf(id).storage))
           /\ IsSome(EntryOf(id).owner) =>
                 se.env.accounts[id].owner = Some(parse_yaml_value(Unwrap(EntryOf(id).owner)))

----------------------------------------------------------------------------
(* Properties of the command line *)

\* the backend the documentation gives for each value of --solver
Documented(solver) ==
    CASE solver = None -> "Yice"
      [] solver = Some("z3") -> "Z3"
      [] solver = Some("boolector") -> "Boolector"
      [] solver = Some("yices2") -> "Yice"
      [] OTHER -> "none"

\* C18: once the input is loaded and the solver option has been looked at,
\* each of z3, boolector and yices2 has given the pool of its backend with
\* the configured cores and timeout, an absent option the Yices2 pool, and
\* any other value has ended the run before the analysis.
C18_SolverOption ==
    (cli # <<>> /\ cli.se_env /\ cli.pc \notin {"pool"}) =>
        IF Documented(cli.argv.solver) # "none"
        THEN cli.pool = Some([kind |-> Documented(cli.argv.solver),
                              count |-> cli.config.cores,
                              timeout |-> cli.config.solver_timeout])
        ELSE cli.pool = None /\ cli.pc = "exited" /\ ~cli.analysed

InputErrors == InputFiles \ {"ok"}

\* C19: a run on an unreadable file, malformed YAML or a bad hex string ends
\* with exit code 1, before the analysis and without a report.
C19_InputErrorExit ==
    (cli # <<>> /\ cli.pc = "exited" /\ ~cli.argv.both_optimizations
     /\ cli.argv.INPUT \in InputErrors) =>
        /\ cli.exit = Some(1)
        /\ ~cli.analysed
        /\ cli.output = None

----------------------------------------------------------------------------
(* Properties of the symbolic memory, stated on the values of the terms *)

\* the values the stack values i, j and v may take
Valuations == [{"i", "j"} -> 0..2] \X {5, 6}

\* the word the fresh base holds at index k
BaseWord(k) == 8 + k

\* the value of a term under the valuation rho = <<indices, v>>
Eval(t, rho) ==
    LET RECURSIVE Value(_)
        Value(x) ==
            CASE x[1] = "const" -> x[2]
              [] x[1] = "var" -> IF x[2] = "v" THEN rho[2] ELSE rho[1][x[2]]
              [] x[1] = "select" -> BaseWord(Value(x[3]))
              [] x[1] = "ite" ->
                     IF Value(x[2][2]) = Value(x[2][3]) THEN Value(x[3]) ELSE Value(x[4])
    IN Value(t)

\* the writes below mval, oldest first
WritesBelow(mval) == Writes(wm.memory, mval)

\* the writes of a list that hit index k under rho
Hits(ws, k, rho) == {n \in DOMAIN ws : Eval(ws[n][1], rho) = k}

\* what the memory holds at index k after the writes ws
Holds(ws, k, rho) ==
    IF Hits(ws, k, rho) = {} THEN BaseWord(k)
    ELSE Eval(ws[CHOOSE n \in Hits(ws, k, rho) : \A h \in Hits(ws, k, rho) : h <= n][2], rho)

\* C20: under every valuation a word read at index i gives the word of the
\* most recent write to i, and the word of the fresh base when there was no
\* write to i; a write at an index other than j does not change what a read
\* at j gives.
C20_RoundTrip ==
    (wm # <<>> /\ IsSome(wm.read)) =>
        \A rho \in Valuations :
           /\ Eval(Unwrap(wm.read).ret, rho) =
                 Holds(WritesBelow(Unwrap(wm.read).at), Eval(Unwrap(wm.read).idx, rho), rho)
           /\ \A j \in Indices :
                 (/\ wm.writes # <<>>
                  /\ Eval(wm.writes[Len(wm.writes)][1], rho) # Eval(j, rho)) =>
                     Eval(word_read(wm.memory, wm.cur, j), rho) =
                        Eval(word_read(wm.memory, Parent(wm.memory, wm.cur), j), rho)

\* a read at a stack value after a write at a constant and a write at
\* another stack value: neither write can be skipped
C20_Witness ==
    /\ wm # <<>> /\ IsSome(wm.read)
    /\ Unwrap(wm.read).at = wm.cur
    /\ Len(wm.writes) = 3
    /\ wm.writes[1][1] = var("i")
    /\ wm.writes[2][1] = const_usize(1)
    /\ wm.writes[3][1] = var("i")
    /\ Unwrap(wm.read).idx = var("j")
    /\ Unwrap(wm.read).ret[1] = "ite"

----------------------------------------------------------------------------
(* Properties of the random values *)

\* the number of significant bits of a byte
BitLen(b) ==
    Cardinality({k \in 0..7 : 2^k <= b})

\* BigUint::bits() of the constant made of the bytes: leading zero bytes
\* carry no bit
RECURSIVE Bits(_)
Bits(bytes) ==
    IF bytes = <<>> THEN 0
    ELSE IF bytes[1] = 0 THEN Bits(Tail(bytes))
    ELSE 8 * (Len(bytes) - 1) + BitLen(bytes[1])

\* C23: every value returned by generate_random_address is a constant of at
\* most 160 bits, that is a constant below 2^160.
C23_AddressFits ==
    rnd # <<>> =>
        \A i \in DOMAIN rnd.addresses :
           /\ rnd.addresses[i][1] = "cvec"
           /\ \A k \in DOMAIN rnd.addresses[i][2] : rnd.addresses[i][2][k] \in 0..255
           /\ Bits(rnd.addresses[i][2]) <= 8 * AddrLen

\* an address that needs all of its 160 bits, next to one that is zero
C23_Witness ==
    /\ rnd # <<>>
    /\ \E i \in DOMAIN rnd.addresses : Bits(rnd.addresses[i][2]) = 8 * AddrLen
    /\ \E i \in DOMAIN rnd.addresses : Bits(rnd.addresses[i][2]) = 0

----------------------------------------------------------------------------
(* Properties of the balances and of the lookup by address *)

\* the values a symbolic balance or callvalue may take
Amounts == {0, 1, WordMod - 1}

\* the variables of a balance term
TermVars(t) ==
    LET RECURSIVE Names(_)
        Names(x) ==
            CASE x[1] = "var" -> {x[2]}
              [] x[1] \in {"add", "sub"} -> Names(x[2]) \cup Names(x[3])
              [] OTHER -> {}
    IN Names(t)

\* the value of a balance term under an assignment, in word arithmetic
Denote(t, rho) ==
    LET RECURSIVE Value(_)
        Value(x) ==
            CASE x[1] = "const" -> x[2] % WordMod
              [] x[1] = "var" -> rho[x[2]]
              [] x[1] = "add" -> (Value(x[2]) + Value(x[3])) % WordMod
              [] x[1] = "sub" -> (Value(x[2]) - Value(x[3])) % WordMod
    IN Value(t)

BalanceVars(env) == UNION {TermVars(env.accounts[a].balance) : a \in DOMAIN env.accounts}

\* the sum of all balances of an Env, modulo the word size
Total(env, rho) ==
    LET RECURSIVE Sum(_)
        Sum(ids) ==
            IF ids = {} THEN 0
            ELSE LET a == CHOOSE x \in ids : TRUE
                 IN (Denote(env.accounts[a].balance, rho) + Sum(ids \ {a})) % WordMod
    IN Sum(DOMAIN env.accounts)

\* C24: a transaction whose sender is its receiver leaves the account with
\* the balance (old - callvalue) + callvalue, which is worth the old balance
\* under every assignment, and still appends callvalue <= old balance to the
\* account's constraints.
C24_SelfTransfer ==
    (lg # <<>> /\ last.op \in TxOps /\ last.args[1] = last.args[2]) =>
        LET acc == last.args[1]
            old == last.pre.accounts[last.args[1]]
            cv == Post.transactions[last.ret].callvalue
        IN /\ Post.accounts[acc].balance = add(sub(old.balance, cv), cv)
           /\ Post.accounts[acc].constraints = Append(old.constraints, le(cv, old.balance))
           /\ \A rho \in [TermVars(Post.accounts[acc].balance) -> Amounts] :
                  Denote(Post.accounts[acc].balance, rho) = Denote(old.balance, rho)
           /\ \A a \in DOMAIN last.pre.accounts \ {acc} :
                  Post.accounts[a] = last.pre.accounts[a]

\* an account with a symbolic balance that sent a symbolic callvalue to itself
C24_Witness ==
    /\ lg # <<>>
    /\ last.op \in TxOps
    /\ last.args[1] = last.args[2]
    /\ Post.accounts[last.args[1]].balance[1] = "add"
    /\ Post.accounts[last.args[1]].balance[2][1] = "sub"

\* C25: after any sequence of new_attacker_tx and new_output_tx the sum of
\* all balances, modulo the word size, is the sum before the sequence, under
\* every assignment of the symbolic balances and callvalues.
C25_SumPreserved ==
    lg # <<>> =>
        \A rho \in [BalanceVars(envs[1]) \cup BalanceVars(lg.start) -> Amounts] :
            Total(envs[1], rho) = Total(lg.start, rho)

\* two transactions after the last account was created, one of them from an
\* account to itself, in an Env of two accounts or more
C25_Witness ==
    /\ lg # <<>>
    /\ Cardinality(DOMAIN envs[1].accounts) >= 2
    /\ Cardinality(DOMAIN envs[1].transactions) = Cardinality(DOMAIN lg.start.transactions) + 2
    /\ last.op \in TxOps
    /\ last.args[1] = last.args[2]
    /\ \E a \in DOMAIN envs[1].accounts :
           /\ envs[1].accounts[a].balance # lg.start.accounts[a].balance
           /\ a # last.args[1]

\* the ids of the accounts of an Env that were created with the address
Holders(env, addr) == {id \in DOMAIN env.accounts : env.accounts[id].addr = addr}

\* the account created last among those with the address
Latest(env, addr) ==
    env.accounts[CHOOSE id \in Holders(env, addr) : \A o \in Holders(env, addr) : o <= id]

\* C26: try_get_account_by_addr(a) returns the account created last with the
\* address a.  With pairwise different addresses every account is found by
\* its address; an account whose address was used again stays in the Env,
\* under its id, and is not what its address finds.
C26_LatestByAddr ==
    lg # <<>> =>
        \A id \in DOMAIN envs[1].accounts :
            LET acc == envs[1].accounts[id]
                found == try_get_account_by_addr(envs[1], acc.addr)
            IN /\ found = Some(Latest(envs[1], acc.addr))
               /\ try_get_account(envs[1], id) = Some(acc)
               /\ Holders(envs[1], acc.addr) = {id} => found = Some(acc)
               /\ Holders(envs[1], acc.addr) # {id} =>
                      (found = Some(acc) <=> \A o \in Holders(envs[1], acc.addr) : o <= id)

\* a second attacker account (or a state entry with the attacker's address)
\* hides the first one
C26_Witness ==
    /\ lg # <<>>
    /\ \E id \in DOMAIN envs[1].accounts :
           /\ Cardinality(Holders(envs[1], envs[1].accounts[id].addr)) >= 2
           /\ try_get_account_by_addr(envs[1], envs[1].accounts[id].addr) #
                  Some(envs[1].accounts[id])
    /\ \E id \in DOMAIN envs[1].accounts :
           Holders(envs[1], envs[1].accounts[id].addr) = {id}

----------------------------------------------------------------------------
(* Properties of the SeEnviroment that was loaded *)

\* the addresses the input state has an account for, and the victim address
StateAddrs ==
    IF "yaml" \in DOMAIN se
    THEN {const_vec(se.yaml.state[i].addr) : i \in DOMAIN se.yaml.state}
    ELSE {const_vec(se.foundry.storage_info[i].addr) : i \in DOMAIN se.foundry.storage_info}

VictimAddr ==
    IF "yaml" \in DOMAIN se THEN const_vec(se.yaml.victim)
    ELSE const_vec(se.foundry.analyzed_address)

\* C27: in the SeEnviroment made by from_yaml or from_foundry, `from` is the
\* id of an account of the Env; `to` is the id of an account exactly when the
\* victim address is a key of the input state, and is AccountId(0), the id of
\* no account, otherwise.
C27_FromTo ==
    (se # <<>> /\ se.loaded) =>
        /\ se.from \in DOMAIN se.env.accounts
        /\ se.to \in DOMAIN se.env.accounts <=> VictimAddr \in StateAddrs
        /\ se.to \in DOMAIN se.env.accounts => se.env.accounts[se.to].addr = VictimAddr
        /\ VictimAddr \notin StateAddrs => se.to = 0
        /\ 0 \notin DOMAIN se.env.accounts

\* a Foundry state of two accounts none of which is the analysed one, loaded
C27_Witness ==
    /\ se # <<>>
    /\ se.loaded
    /\ "foundry" \in DOMAIN se
    /\ Len(se.foundry.storage_info) = 2
    /\ se.to = 0
    /\ se.from = 1

----------------------------------------------------------------------------
(* Properties of the exploration *)

\* C21: a state that a JUMPI with a non-constant condition put in the
\* worklist carries its parent's path condition extended by one literal,
\* cond != 0 with pc = dest or cond = 0 with pc = next, and that path
\* condition is satisfiable: none that was found unsatisfiable, or not found
\* satisfiable, is in the worklist.
C21_ForkSuccessors ==
    ex # <<>> =>
        \A i \in DOMAIN ex.worklist :
            LET s == ex.worklist[i]
                par == Unwrap(s.parent)
            IN IsSome(s.parent) =>
                  /\ Forks(par)
                  /\ \/ /\ s.constraints =
                               Append(par.constraints, Literal(par.pc, par.tx, "nonzero"))
                        /\ s.pc = Program[par.pc].dest
                     \/ /\ s.constraints =
                               Append(par.constraints, Literal(par.pc, par.tx, "zero"))
                        /\ s.pc = par.pc + 1
                  /\ Consistent(s.constraints)

\* both successors of a fork in the worklist, the one that falls through on
\* top, after a successor with an unsatisfiable path condition was pruned
C21_Witness ==
    /\ ex # <<>>
    /\ Len(ex.worklist) >= 2
    /\ IsSome(Top.parent)
    /\ Top.parent = ex.worklist[Len(ex.worklist) - 1].parent
    /\ Top.constraints[Len(Top.constraints)][3] = "zero"
    /\ "Unsat" \in ex.pruned

\* the attacker transactions on the paths being explored never exceed
\* call_bound
WithinCallBound ==
    ex # <<>> =>
        /\ ex.tx_count <= ex.cfg.call_bound
        /\ \A i \in DOMAIN ex.worklist : ex.worklist[i].tx <= ex.cfg.call_bound
        /\ \A s \in ex.leaves : s.tx <= ex.cfg.call_bound

\* C22: the exploration terminates: under loop_bound, call_bound and
\* max_depth the explorer eventually stops with an empty worklist (nothing
\* left to explore, an attacker win, or the call bound met), and no explored
\* path ever holds more than call_bound attacker transactions.
C22_Terminates ==
    /\ <>[](ex.done /\ ex.worklist = <<>>)
    /\ []WithinCallBound

\* an exploration that made call_bound = 2 transactions, lost paths to the
\* loop bound and to max_depth, and ended without a counterexample
C22_Witness ==
    /\ ex # <<>>
    /\ ex.done
    /\ ~ex.found
    /\ ex.cfg.call_bound = 2
    /\ ex.tx_count = ex.cfg.call_bound
    /\ ex.dropped = {"loop_bound", "max_depth"}

----------------------------------------------------------------------------
(* Properties of the function runner *)

Prove == <<"p", "r", "o", "v", "e">>

\* the name begins with the letters of `prove`
ProveName(name) == Len(name) >= Len(Prove) /\ \A k \in DOMAIN Prove : name[k] = Prove[k]

\* C28: run takes a function to the symbolic execution only if it is a test
\* whose name starts with `prove`; every other matching test function comes
\* back skipped with the reason `No symbolic execution test found` and no
\* call made; a function whose inline configuration fails comes back failed
\* with the error as its reason and no call made.
C28_OnlyProve ==
    fr # <<>> =>
        \A n \in DOMAIN fr.test_results :
            LET t == fr.test_results[n]
            IN /\ t.ran = "run_symbolic_exec_test" =>
                      /\ ProveName(t.func.name)
                      /\ t.func.is_any_test
                      /\ t.inline = "Ok"
               /\ (t.inline = "Ok" /\ ~ProveName(t.func.name)) =>
                      /\ t.result.status = "Skipped"
                      /\ t.result.reason = Some("No symbolic execution test found")
                      /\ t.calls = <<>>
                      /\ t.ran = "none"
               /\ t.inline # "Ok" =>
                      /\ t.result.status = "Failure"
                      /\ t.result.reason = Some(t.inline)
                      /\ t.calls = <<>>
                      /\ t.ran = "none"

\* a contract whose prove test was taken to the symbolic execution and whose
\* test named testProve was skipped
C28_Witness ==
    /\ fr # <<>>
    /\ \E n \in DOMAIN fr.test_results :
           /\ fr.test_results[n].ran = "run_symbolic_exec_test"
           /\ fr.test_results[n].calls # <<>>
    /\ \E n \in DOMAIN fr.test_results :
           /\ n[1] = "t"
           /\ Len(n) = 9
           /\ fr.test_results[n].result.status = "Skipped"

----------------------------------------------------------------------------
(* Properties of the streaming of the results *)

\* how often a contract occurs in a list
Occurrences(seq, c) == Cardinality({i \in DOMAIN seq : seq[i] = c})

\* every pair that was sent has been inserted, once
AllInserted == \A i \in DOMAIN ch.sent : Occurrences(ch.inserts, ch.sent[i]) = 1

\* nothing is inserted that was not sent, and nothing twice
NoneTwice ==
    \A i \in DOMAIN ch.inserts :
        /\ Occurrences(ch.inserts, ch.inserts[i]) = 1
        /\ Occurrences(ch.sent, ch.inserts[i]) = 1
        /\ ch.inserts[i] \in DOMAIN ch.results

====
